---- MODULE Spec2Model ----
\* narko: the block-reconciliation client (src/src/narko/notion/client.py),
\* the text chunker and the language table (src/narko.py) and the two
\* NotionConverters (src/narko.py and src/src/narko/converter.py), modelled as
\* state machines.
EXTENDS Integers, Sequences, FiniteSets, TLC

\* ------------------------------------------------------------------ bounds
\* Largest number of children the remote page starts with.
MaxRemote == 3
\* Largest batch the remote returns for one page request (never more than the
\* page_size of 100 the client asks for).
MaxBatch == 2
\* Input block lists have 0..MaxSmall blocks, or BlockLimit..BlockLimit+MaxOver.
MaxSmall == 2
MaxOver == 1

\* ------------------------------------------------------- program constants
\* blocks[:100], the per-call insertion ceiling.
BlockLimit == 100

VARIABLES
    pc,               \* position of the running call: idle, fetch, delete, insert, done
    op,               \* the operation called
    new_blocks,       \* the blocks argument of the call
    remote,           \* the remote page's children, in order
    remote0,          \* the remote page's children when the call started
    fetched,          \* blocks accumulated by the fetch_blocks frames in progress
    start_cursor,     \* cursor the next page request will carry (0: none)
    gets,             \* start_cursor of every page request issued (0: absent)
    pages,            \* the body of every page response, in order
    get_failed,       \* a page request was answered non-200 or raised
    existing_blocks,  \* value get_page_blocks returned
    block_ids,        \* argument of delete_blocks
    attempts,         \* ids of the delete requests issued, in order
    deleted,          \* delete_blocks' results["deleted"]
    errors,           \* delete_blocks' results["errors"] (block ids)
    sent,             \* children of every insert request issued
    insert_status,    \* how the insert request was answered (none: not issued)
    result,           \* what the call gave its caller
    response,         \* keys of the dict import_to_notion returned for the call
    text,             \* chunk_text: the text still to chunk
    text0,            \* chunk_text: the text argument
    limit,            \* chunk_text: the limit argument
    chunks,           \* chunk_text: the chunks so far / returned
    cpc,              \* chunk_text: off, start, loop, done
    lang,             \* map_language: the lang argument of the first call
    mapped,           \* map_language: what each successive call returned
    conv,             \* convert: which NotionConverter runs (off, narko, package)
    ast,              \* convert: ast.children, the document's top-level nodes
    disk,             \* convert: the paths os.path.exists() answers True for
    pos,              \* convert: index of the child the loop handles next
    cblocks,          \* convert: the blocks list built so far
    emitted,          \* convert: for each child handled, the blocks it added
    uploads,          \* convert: for each child handled, what upload_file did
    cvpc,             \* convert: off, loop, done
    url_or_id,        \* extract_page_id: the argument of the first call
    page_ids,         \* extract_page_id: what each successive call returned
    heap,             \* shared converter: the list objects created so far
    self_blocks,      \* shared converter: the list self.blocks refers to (0: none)
    calls,            \* shared converter: each convert call's document, position and return
    attempt,          \* _poll_for_completion: status requests made so far
    answers,          \* _poll_for_completion: the kinds of answer before the last one
    answer,           \* _poll_for_completion: the last answer
    poll,             \* _poll_for_completion: off, polling, or how it ended
    cache,            \* UploadCache: the cache file's entry for each hash
    got,              \* UploadCache: what the last get() returned
    cleaned           \* UploadCache: what the last cleanup() returned (-1: none)

vars == <<pc, op, new_blocks, remote, remote0, fetched, start_cursor, gets,
          pages, get_failed, existing_blocks, block_ids,
          attempts, deleted, errors, sent, insert_status, result, response,
          text, text0, limit, chunks, cpc,
          lang, mapped,
          conv, ast, disk, pos, cblocks, emitted, uploads, cvpc,
          url_or_id, page_ids, heap, self_blocks, calls,
          attempt, answers, answer, poll, cache, got, cleaned>>

clientVars == <<pc, op, new_blocks, remote, remote0, fetched, start_cursor,
                gets, pages, get_failed, existing_blocks, block_ids,
                attempts, deleted, errors, sent, insert_status, result,
                response>>
chunkVars == <<text, text0, limit, chunks, cpc>>
langVars == <<lang, mapped>>
convVars == <<conv, ast, disk, pos, cblocks, emitted, uploads, cvpc>>
\* The variables of the smaller machines: extract_page_id, two convert calls
\* on one converter, _poll_for_completion, UploadCache.
auxVars == <<url_or_id, page_ids, heap, self_blocks, calls,
             attempt, answers, answer, poll, cache, got, cleaned>>

Min(a, b) == IF a <= b THEN a ELSE b

\* ------------------------------------------------------------ input blocks
\* An input block: n numbers it (its "Block n" text), type "" stands for a
\* missing type, content is the block's rich_text content: a string, a
\* non-string that is falsy or truthy, or absent (a block with no rich_text).
Content(kind, val) == [kind |-> kind, val |-> val]

\* A clean list has typed blocks with string content. A dirty list has
\* blocks without a type inside and outside the first BlockLimit, and blocks
\* whose content is not a string or is absent.
InputBlock(i, dirty) ==
    [n |-> i,
     type |-> IF dirty /\ i \in {2, BlockLimit, BlockLimit + 1}
              THEN "" ELSE "paragraph",
     content |-> IF dirty /\ i = 1 THEN Content("truthy", "7")
                 ELSE IF dirty /\ i = 3 THEN Content("falsy", "0")
                 ELSE IF dirty /\ i = 4 THEN Content("absent", "")
                 ELSE Content("str", "text")]

InputLens == (0 .. MaxSmall) \cup (BlockLimit .. (BlockLimit + MaxOver))

\* Block lists the caller may pass.
Inputs == { [i \in 1..len |-> InputBlock(i, d)] :
              len \in InputLens, d \in BOOLEAN }

\* ------------------------------------------------------------ remote pages
RemoteTypes == {"paragraph", "child_page"}

Remotes == UNION { { [i \in 1..len |-> [id |-> i, type |-> t[i]]] :
                       t \in [1..len -> RemoteTypes] } : len \in 0..MaxRemote }

\* ---------------------------------------------------------------- results
\* What a call gives its caller: a returned dict (keys: the keys the client
\* sets on it) or a raised exception.
NoResult == [outcome |-> "none", keys |-> {}, mode |-> "", deleted |-> 0,
             preserved |-> 0, added |-> 0]
Raised == [NoResult EXCEPT !.outcome = "raise"]
ResponseJson == [NoResult EXCEPT !.outcome = "return"]
ErrorResult == [NoResult EXCEPT !.outcome = "return", !.keys = {"error"}]

\* What the remote (or the transport) does with one request: answers 200,
\* answers another status, or the request raises.
Outcomes == {"ok", "status", "raise"}

\* ------------------------------------------------------- NotionClient code
TruncateOffByOne(blocks) == SubSeq(blocks, 1, Min(BlockLimit + 1, Len(blocks)))

\* blocks[:100]
Truncate(blocks) == SubSeq(blocks, 1, Min(BlockLimit, Len(blocks)))

\* rt_item['text']['content'] = str(content) if content else ""
CleanContent(c) ==
    IF c.kind = "falsy" THEN Content("str", "")
    ELSE IF c.kind = "truthy" THEN Content("str", c.val)
    ELSE c

\* Blocks without a type are skipped, non-string content is made a string.
_validate_blocks(blocks) ==
    LET typed == SelectSeq(blocks, LAMBDA b : b.type # "")
    IN  [i \in 1..Len(typed) |-> [typed[i] EXCEPT !.content = CleanContent(@)]]

\* The remote appends the children of a PATCH blocks/{id}/children request
\* at the end of the page, giving them ids of its own.
RemoteAppend(page, children) ==
    page \o [i \in 1..Len(children) |->
                [id |-> MaxRemote + i, type |-> children[i].type]]

RemoteDelete(page, id) == SelectSeq(page, LAMBDA b : b.id # id)

\* The page of children the remote serves from a cursor: a batch, has_more
\* and next_cursor. The cursor is the position of the first block to serve.
RemotePage(page, cursor, size) ==
    LET from == IF cursor = 0 THEN 1 ELSE cursor
        to == Min(from + size - 1, Len(page))
    IN  [results |-> SubSeq(page, from, to),
         has_more |-> to < Len(page),
         next_cursor |-> IF to < Len(page) THEN to + 1 ELSE 0]

\* The body of a non-200 answer: data.get('results', []) and
\* data.get('has_more') find nothing in it.
ErrorBody == [results |-> <<>>, has_more |-> FALSE, next_cursor |-> 0]

StatusAny(resp) == TRUE

\* response.status_code == 200, of an answered insert / create request
StatusOk(resp) == resp = "ok"

GetStatusIgnored(resp) == FALSE

\* response.status_code != 200, of an answered page request
GetStatusBad(resp) == resp = "status"

ExtendFront(blocks, more) == more \o blocks

\* blocks.extend(fetch_blocks(block_id, data.get('next_cursor')))
Extend(blocks, more) == blocks \o more

\* params["start_cursor"] is set only when start_cursor is truthy
CursorParam(cursor) == IF cursor # 0 THEN cursor ELSE 0

ContentBlocksAll(blocks) == blocks

ContentBlocks(blocks) == SelectSeq(blocks, LAMBDA b : b.type # "child_page")
SubpageBlocks(blocks) == SelectSeq(blocks, LAMBDA b : b.type = "child_page")

IdsOffByOne(blocks) == [i \in 1..Len(blocks) |-> blocks[i].id + 1]

Ids(blocks) == [i \in 1..Len(blocks) |-> blocks[i].id]

\* The blocks a replace operation hands to delete_blocks.
DeleteTargets(o, existing) ==
    IF o = "replace_all" THEN Ids(existing) ELSE Ids(ContentBlocks(existing))

\* result["deleted_blocks"] / result["deleted_content_blocks"]
DeletedCount(o, existing) ==
    IF o = "replace_all" THEN Len(existing) ELSE Len(ContentBlocks(existing))

SuccessResult(o, existing, validated) ==
    IF o = "replace_all"
    THEN [outcome |-> "return",
          keys |-> {"mode", "deleted_blocks", "added_blocks"},
          mode |-> "replace_all",
          deleted |-> DeletedCount(o, existing),
          preserved |-> 0,
          added |-> Len(validated)]
    ELSE [outcome |-> "return",
          keys |-> {"mode", "deleted_content_blocks", "preserved_subpages",
                    "added_blocks"},
          mode |-> "replace_content",
          deleted |-> DeletedCount(o, existing),
          preserved |-> Len(SubpageBlocks(existing)),
          added |-> Len(validated)]

\* ------------------------------------------------------------ chunk_text
\* Texts are sequences of characters; " " is the space rfind looks for,
\* "\n" another whitespace character that lstrip removes.
Whitespace == {" ", "\n"}

\* text.rfind(' ', 0, limit): the highest 0-based index below limit holding
\* a space, -1 when there is none.
rfind(s, end) ==
    LET hits == { i \in 0 .. (Min(end, Len(s)) - 1) : s[i + 1] = " " }
    IN  IF hits = {} THEN -1
        ELSE CHOOSE i \in hits : \A j \in hits : j <= i

split_pos_late(s, lim) == IF rfind(s, lim) = -1 THEN lim + 1 ELSE rfind(s, lim)
split_pos_hard(s, lim) == lim

\* split_pos = text.rfind(' ', 0, limit); if split_pos == -1: split_pos = limit
split_pos(s, lim) == IF rfind(s, lim) = -1 THEN lim ELSE rfind(s, lim)

\* The text as it stands, nothing stripped.
lstrip_none(s) == s

\* s.lstrip()
RECURSIVE lstrip(_)
lstrip(s) ==
    IF s # <<>> /\ Head(s) \in Whitespace THEN lstrip(Tail(s)) ELSE s

ClientOff ==
    /\ pc = "off"
    /\ op = "none"
    /\ new_blocks = <<>>
    /\ remote = <<>>
    /\ remote0 = <<>>
    /\ fetched = <<>>
    /\ start_cursor = 0
    /\ gets = <<>>
    /\ pages = <<>>
    /\ get_failed = FALSE
    /\ existing_blocks = <<>>
    /\ block_ids = <<>>
    /\ attempts = <<>>
    /\ deleted = <<>>
    /\ errors = <<>>
    /\ sent = <<>>
    /\ insert_status = "none"
    /\ result = NoResult
    /\ response = {}

ChunkOff ==
    /\ text = <<>>
    /\ text0 = <<>>
    /\ limit = 1
    /\ chunks = <<>>
    /\ cpc = "off"

\* map_language is not being called.
LangOff ==
    /\ lang = <<"-">>
    /\ mapped = <<>>

\* No conversion is running.
ConvOff ==
    /\ conv = "off"
    /\ ast = <<>>
    /\ disk = {}
    /\ pos = 1
    /\ cblocks = <<>>
    /\ emitted = <<>>
    /\ uploads = <<>>
    /\ cvpc = "off"

\* None of the smaller machines is running.
AuxOff ==
    /\ url_or_id = <<>>
    /\ page_ids = <<>>
    /\ heap = <<>>
    /\ self_blocks = 0
    /\ calls = <<>>
    /\ attempt = 0
    /\ answers = {}
    /\ answer = "-"
    /\ poll = "off"
    /\ cache = <<>>
    /\ got = "-"
    /\ cleaned = -1

\* ------------------------------------------------- the client's operations
Init ==
    /\ pc = "idle"
    /\ op = "none"
    /\ new_blocks \in Inputs
    /\ remote \in Remotes
    /\ remote0 = remote
    /\ fetched = <<>>
    /\ start_cursor = 0
    /\ gets = <<>>
    /\ pages = <<>>
    /\ get_failed = FALSE
    /\ existing_blocks = <<>>
    /\ block_ids = <<>>
    /\ attempts = <<>>
    /\ deleted = <<>>
    /\ errors = <<>>
    /\ sent = <<>>
    /\ insert_status = "none"
    /\ result = NoResult
    /\ response = {}
    /\ ChunkOff
    /\ LangOff
    /\ ConvOff
    /\ AuxOff

\* create_page: one POST /pages with the validated first 100 blocks; a
\* non-200 answer (or a request that raises) is an exception for the caller.
create_page(resp) ==
    /\ pc = "idle"
    /\ op' = "create_page"
    /\ sent' = Append(sent, _validate_blocks(Truncate(new_blocks)))
    /\ insert_status' = resp
    /\ result' = IF resp # "raise" /\ StatusOk(resp) THEN ResponseJson
                 ELSE Raised
    /\ pc' = "done"
    /\ UNCHANGED <<new_blocks, remote, remote0, fetched, start_cursor, gets,
                   pages, get_failed, existing_blocks, block_ids, attempts,
                   deleted, errors>>
    /\ UNCHANGED response
    /\ UNCHANGED <<chunkVars, langVars, convVars, auxVars>>

\* append_blocks: one PATCH blocks/{id}/children.
append_blocks(resp) ==
    /\ pc = "idle"
    /\ op' = "append_blocks"
    /\ LET validated_blocks == _validate_blocks(Truncate(new_blocks))
       IN  /\ sent' = Append(sent, validated_blocks)
           /\ remote' = IF resp = "ok" THEN RemoteAppend(remote, validated_blocks)
                        ELSE remote
    /\ insert_status' = resp
    /\ result' = IF resp # "raise" /\ StatusOk(resp) THEN ResponseJson
                 ELSE Raised
    /\ pc' = "done"
    /\ UNCHANGED <<new_blocks, remote0, fetched, start_cursor, gets, pages,
                   get_failed, existing_blocks, block_ids, attempts, deleted,
                   errors>>
    /\ UNCHANGED response
    /\ UNCHANGED <<chunkVars, langVars, convVars, auxVars>>

\* replace_all_blocks / replace_content_blocks entered: get_page_blocks is
\* called first.
replace_begin(o) ==
    /\ pc = "idle"
    /\ op' = o
    /\ pc' = "fetch"
    /\ UNCHANGED <<new_blocks, remote, remote0, fetched, start_cursor, gets,
                   pages, get_failed, existing_blocks, block_ids, attempts,
                   deleted, errors, sent, insert_status, result>>
    /\ UNCHANGED response
    /\ UNCHANGED <<chunkVars, langVars, convVars, auxVars>>

\* One fetch_blocks frame: a GET blocks/{id}/children and what follows it.
\* A failed request raises through every frame and is caught by the replace
\* operation; the last page makes get_page_blocks return, and the replace
\* operation picks the blocks to delete.
fetch_blocks(resp, size) ==
    /\ pc = "fetch"
    /\ gets' = Append(gets, CursorParam(start_cursor))
    /\ get_failed' = (get_failed \/ resp # "ok")
    /\ LET data == IF resp = "ok"
                   THEN RemotePage(remote, CursorParam(start_cursor), size)
                   ELSE ErrorBody
           blocks == Extend(fetched, data.results)
       IN  /\ pages' = Append(pages, data)
           /\ IF resp = "raise" \/ GetStatusBad(resp)
              THEN /\ fetched' = <<>>
                   /\ result' = ErrorResult
                   /\ pc' = "done"
                   /\ UNCHANGED <<start_cursor, existing_blocks, block_ids>>
              ELSE /\ IF data.has_more
                      THEN /\ fetched' = blocks
                           /\ start_cursor' = data.next_cursor
                           /\ pc' = "fetch"
                           /\ UNCHANGED <<existing_blocks, block_ids>>
                      ELSE /\ fetched' = <<>>
                           /\ existing_blocks' = blocks
                           /\ block_ids' = DeleteTargets(op, blocks)
                           /\ pc' = IF DeleteTargets(op, blocks) = <<>>
                                    THEN "insert" ELSE "delete"
                           /\ UNCHANGED start_cursor
                   /\ UNCHANGED result
    /\ UNCHANGED <<op, new_blocks, remote, remote0, attempts, deleted, errors,
                   sent, insert_status>>
    /\ UNCHANGED response
    /\ UNCHANGED <<chunkVars, langVars, convVars, auxVars>>

DeleteLoopAbort(n_attempted, ids, resp) ==
    IF n_attempted = Len(ids) \/ resp # "ok" THEN "insert" ELSE "delete"

\* Where delete_blocks' loop goes after an attempt: on to the next id, or,
\* after the last one, back to the replace operation, whatever the answer.
DeleteLoopNext(n_attempted, ids, resp) ==
    IF n_attempted = Len(ids) THEN "insert" ELSE "delete"

\* One iteration of delete_blocks' loop: DELETE blocks/{id}.
delete_blocks(resp) ==
    /\ pc = "delete"
    /\ LET block_id == block_ids[Len(attempts) + 1]
       IN  /\ attempts' = Append(attempts, block_id)
           /\ IF resp = "ok"
              THEN /\ deleted' = Append(deleted, block_id)
                   /\ remote' = RemoteDelete(remote, block_id)
                   /\ UNCHANGED errors
              ELSE /\ errors' = Append(errors, block_id)
                   /\ UNCHANGED <<deleted, remote>>
    /\ pc' = DeleteLoopNext(Len(attempts) + 1, block_ids, resp)
    /\ UNCHANGED <<op, new_blocks, remote0, fetched, start_cursor, gets,
                   pages, get_failed, existing_blocks, block_ids, sent,
                   insert_status, result>>
    /\ UNCHANGED response
    /\ UNCHANGED <<chunkVars, langVars, convVars, auxVars>>

\* The replace operations' last step: PATCH blocks/{id}/children.
insert_blocks(resp) ==
    /\ pc = "insert"
    /\ LET validated_blocks == _validate_blocks(Truncate(new_blocks))
       IN  /\ sent' = Append(sent, validated_blocks)
           /\ remote' = IF resp = "ok" THEN RemoteAppend(remote, validated_blocks)
                        ELSE remote
           /\ result' = IF resp # "raise" /\ StatusOk(resp)
                        THEN SuccessResult(op, existing_blocks, validated_blocks)
                        ELSE ErrorResult
    /\ insert_status' = resp
    /\ pc' = "done"
    /\ UNCHANGED <<op, new_blocks, remote0, fetched, start_cursor, gets,
                   pages, get_failed, existing_blocks, block_ids, attempts,
                   deleted, errors>>
    /\ UNCHANGED response
    /\ UNCHANGED <<chunkVars, langVars, convVars, auxVars>>

\* run_narko.py, NarkoApp.import_to_notion, after the client's call: an
\* exception of the call gives {"error": ...}; otherwise the returned dict is
\* handed on with 'url' set on it for append, replace_all and
\* replace_content, and 'mode' for append and create. A created page's dict
\* is the remote's page object, which carries a url. response is empty
\* until import_to_notion has returned.
import_to_notion ==
    /\ pc = "done"
    /\ response = {}
    /\ response' =
           IF result.outcome = "raise" THEN {"error"}
           ELSE IF op = "create_page" THEN result.keys \cup {"url", "mode"}
           ELSE IF op = "append_blocks" THEN result.keys \cup {"url", "mode"}
           ELSE result.keys \cup {"url"}
    /\ UNCHANGED <<pc, op, new_blocks, remote, remote0, fetched, start_cursor, gets,
                   pages, get_failed, existing_blocks, block_ids, attempts,
                   deleted, errors, sent, insert_status, result>>
    /\ UNCHANGED <<chunkVars, langVars, convVars, auxVars>>

\* The batch sizes the remote may answer a page request with.
BatchSizes ==
    LET from == IF start_cursor = 0 THEN 1 ELSE start_cursor
        left == Len(remote) - from + 1
    IN  IF left <= 0 THEN {0} ELSE 1 .. Min(MaxBatch, left)

Next ==
    \/ \E resp \in Outcomes : create_page(resp)
    \/ \E resp \in Outcomes : append_blocks(resp)
    \/ \E o \in {"replace_all", "replace_content"} : replace_begin(o)
    \/ \E resp \in Outcomes, size \in BatchSizes : fetch_blocks(resp, size)
    \/ \E resp \in Outcomes : delete_blocks(resp)
    \/ \E resp \in Outcomes : insert_blocks(resp)
    \/ import_to_notion

Spec == Init /\ [][Next]_vars

\* --------------------------------------------------- chunk_text, stepwise
Chars == {"a", " ", "\n"}
MaxText == 6
MaxLimit == 3

Texts == UNION { [1..n -> Chars] : n \in 0..MaxText }

InitChunk ==
    /\ ClientOff
    /\ LangOff
    /\ ConvOff
    /\ AuxOff
    /\ text0 \in Texts
    /\ text = text0
    /\ limit \in 1..MaxLimit
    /\ chunks = <<>>
    /\ cpc = "start"

\* if len(text) <= limit: return [text]
chunk_enter ==
    /\ cpc = "start"
    /\ IF Len(text) <= limit
       THEN /\ chunks' = <<text>>
            /\ cpc' = "done"
       ELSE /\ chunks' = <<>>
            /\ cpc' = "loop"
    /\ UNCHANGED <<text, text0, limit>>
    /\ UNCHANGED <<clientVars, langVars, convVars, auxVars>>

\* One pass of `while text:`.
chunk_loop ==
    /\ cpc = "loop"
    /\ IF text = <<>>
       THEN /\ cpc' = "done"
            /\ UNCHANGED <<text, chunks>>
       ELSE IF Len(text) <= limit
       THEN /\ chunks' = Append(chunks, text)
            /\ cpc' = "done"
            /\ UNCHANGED text
       ELSE /\ chunks' = Append(chunks, SubSeq(text, 1, split_pos(text, limit)))
            /\ text' = lstrip(SubSeq(text, split_pos(text, limit) + 1, Len(text)))
            /\ cpc' = "loop"
    /\ UNCHANGED <<text0, limit>>
    /\ UNCHANGED <<clientVars, langVars, convVars, auxVars>>

NextChunk == chunk_enter \/ chunk_loop

SpecChunk == InitChunk /\ [][NextChunk]_vars

\* chunk_text runs on its own thread of control: a call that can take a step
\* takes it.
SpecChunkFair == SpecChunk /\ WF_vars(NextChunk)

\* ------------------------------------------------------------ map_language
\* Strings are sequences of one-character strings, so that changing the case
\* of a tag is something the model computes.
LowerLetters ==
    << "a", "b", "c", "d", "e", "f", "g", "h", "i", "j", "k", "l", "m", "n",
       "o", "p", "q", "r", "s", "t", "u", "v", "w", "x", "y", "z" >>
UpperLetters ==
    << "A", "B", "C", "D", "E", "F", "G", "H", "I", "J", "K", "L", "M", "N",
       "O", "P", "Q", "R", "S", "T", "U", "V", "W", "X", "Y", "Z" >>

\* str.lower() and str.upper(), character by character.
lower(s) ==
    LET lower_char(c) ==
            IF \E i \in 1 .. 26 : UpperLetters[i] = c
            THEN LowerLetters[CHOOSE i \in 1 .. 26 : UpperLetters[i] = c]
            ELSE c
    IN  [i \in 1 .. Len(s) |-> lower_char(s[i])]
upper(s) ==
    LET upper_char(c) ==
            IF \E i \in 1 .. 26 : LowerLetters[i] = c
            THEN UpperLetters[CHOOSE i \in 1 .. 26 : LowerLetters[i] = c]
            ELSE c
    IN  [i \in 1 .. Len(s) |-> upper_char(s[i])]

PlainText == <<"p", "l", "a", "i", "n", " ", "t", "e", "x", "t">>

\* The `supported` set of map_language.
supported == {
    <<"p", "y", "t", "h", "o", "n">>,
    <<"j", "a", "v", "a", "s", "c", "r", "i", "p", "t">>,
    <<"t", "y", "p", "e", "s", "c", "r", "i", "p", "t">>,
    <<"j", "a", "v", "a">>,
    <<"c">>,
    <<"c", "p", "p">>,
    <<"c", "+", "+">>,
    <<"c", "s", "h", "a", "r", "p">>,
    <<"c", "#">>,
    <<"r", "u", "b", "y">>,
    <<"g", "o">>,
    <<"r", "u", "s", "t">>,
    <<"k", "o", "t", "l", "i", "n">>,
    <<"s", "w", "i", "f", "t">>,
    <<"o", "b", "j", "e", "c", "t", "i", "v", "e", "c">>,
    <<"o", "b", "j", "e", "c", "t", "i", "v", "e", "-", "c">>,
    <<"s", "c", "a", "l", "a">>,
    <<"s", "h", "e", "l", "l">>,
    <<"b", "a", "s", "h">>,
    <<"p", "o", "w", "e", "r", "s", "h", "e", "l", "l">>,
    <<"s", "q", "l">>,
    <<"h", "t", "m", "l">>,
    <<"c", "s", "s">>,
    <<"s", "c", "s", "s">>,
    <<"s", "a", "s", "s">>,
    <<"l", "e", "s", "s">>,
    <<"x", "m", "l">>,
    <<"j", "s", "o", "n">>,
    <<"y", "a", "m", "l">>,
    <<"t", "o", "m", "l">>,
    <<"m", "a", "r", "k", "d", "o", "w", "n">>,
    <<"l", "a", "t", "e", "x">>,
    <<"p", "l", "a", "i", "n", "t", "e", "x", "t">>,
    <<"p", "l", "a", "i", "n", " ", "t", "e", "x", "t">>,
    <<"d", "a", "r", "t">>,
    <<"e", "l", "i", "x", "i", "r">>,
    <<"e", "l", "m">>,
    <<"e", "r", "l", "a", "n", "g">>,
    <<"f", "#">>,
    <<"f", "s", "h", "a", "r", "p">>,
    <<"h", "a", "s", "k", "e", "l", "l">>,
    <<"j", "u", "l", "i", "a">>,
    <<"l", "u", "a">>,
    <<"p", "e", "r", "l">>,
    <<"p", "h", "p">>,
    <<"r">>,
    <<"s", "o", "l", "i", "d", "i", "t", "y">>,
    <<"m", "e", "r", "m", "a", "i", "d">>,
    <<"g", "r", "a", "p", "h", "q", "l">>,
    <<"d", "o", "c", "k", "e", "r">>,
    <<"m", "a", "k", "e", "f", "i", "l", "e">>,
    <<"d", "i", "f", "f">>,
    <<"p", "r", "o", "t", "o", "b", "u", "f">>,
    <<"w", "e", "b", "a", "s", "s", "e", "m", "b", "l", "y">>,
    <<"n", "o", "t", "i", "o", "n", " ", "f", "o", "r", "m", "u", "l", "a">>,
    <<"c", "l", "o", "j", "u", "r", "e">>,
    <<"c", "o", "f", "f", "e", "e", "s", "c", "r", "i", "p", "t">>,
    <<"l", "i", "s", "p">>,
    <<"m", "a", "t", "l", "a", "b">>,
    <<"m", "a", "t", "h", "e", "m", "a", "t", "i", "c", "a">>,
    <<"n", "i", "x">>,
    <<"o", "c", "a", "m", "l">>,
    <<"r", "a", "c", "k", "e", "t">>,
    <<"r", "e", "a", "s", "o", "n">>,
    <<"s", "c", "h", "e", "m", "e">>,
    <<"s", "m", "a", "l", "l", "t", "a", "l", "k">>,
    <<"v", "b", ".", "n", "e", "t">>,
    <<"v", "e", "r", "i", "l", "o", "g">>,
    <<"v", "h", "d", "l">>,
    <<"v", "i", "s", "u", "a", "l", " ", "b", "a", "s", "i", "c">> }

\* The `mappings` dictionary of map_language, as <<key, value>> pairs.
mappings == {
    <<<<"p", "y">>, <<"p", "y", "t", "h", "o", "n">>>>,
    <<<<"j", "s">>, <<"j", "a", "v", "a", "s", "c", "r", "i", "p", "t">>>>,
    <<<<"t", "s">>, <<"t", "y", "p", "e", "s", "c", "r", "i", "p", "t">>>>,
    <<<<"s", "h">>, <<"s", "h", "e", "l", "l">>>>,
    <<<<"y", "m", "l">>, <<"y", "a", "m", "l">>>>,
    <<<<"m", "d">>, <<"m", "a", "r", "k", "d", "o", "w", "n">>>>,
    <<<<"d", "o", "c", "k", "e", "r", "f", "i", "l", "e">>, <<"d", "o", "c", "k", "e", "r">>>>,
    <<<<"m", "a", "k", "e", "f", "i", "l", "e">>, <<"m", "a", "k", "e", "f", "i", "l", "e">>>>,
    <<<<"m", "a", "k", "e">>, <<"m", "a", "k", "e", "f", "i", "l", "e">>>>,
    <<<<"p", "r", "o", "t", "o">>, <<"p", "r", "o", "t", "o", "b", "u", "f">>>>,
    <<<<"w", "a", "s", "m">>, <<"w", "e", "b", "a", "s", "s", "e", "m", "b", "l", "y">>>>,
    <<<<"f", "s">>, <<"f", "#">>>>,
    <<<<"e", "x">>, <<"e", "l", "i", "x", "i", "r">>>>,
    <<<<"e", "r", "l">>, <<"e", "r", "l", "a", "n", "g">>>>,
    <<<<"h", "s">>, <<"h", "a", "s", "k", "e", "l", "l">>>>,
    <<<<"j", "l">>, <<"j", "u", "l", "i", "a">>>>,
    <<<<"m", "l">>, <<"o", "c", "a", "m", "l">>>>,
    <<<<"r", "k", "t">>, <<"r", "a", "c", "k", "e", "t">>>>,
    <<<<"s", "c", "m">>, <<"s", "c", "h", "e", "m", "e">>>>,
    <<<<"s", "o", "l">>, <<"s", "o", "l", "i", "d", "i", "t", "y">>>> }

MappingKeys == { m[1] : m \in mappings }
\* mappings.get(key, default)
mappings_get(key, default) ==
    IF key \in MappingKeys
    THEN (CHOOSE m \in mappings : m[1] = key)[2]
    ELSE default

\* map_language returning a supported tag as it was written.
map_language_as_written(t) ==
    IF t = <<>> THEN PlainText
    ELSE LET lang_lower == lower(t)
         IN  IF lang_lower \in supported THEN t
             ELSE mappings_get(lang_lower, PlainText)

\* map_language(lang)
map_language(t) ==
    IF t = <<>> THEN PlainText
    ELSE LET lang_lower == lower(t)
         IN  IF lang_lower \in supported THEN lang_lower
             ELSE mappings_get(lang_lower, PlainText)

\* The tags map_language is called with: every supported name and every
\* alias in lower case, in upper case and capitalised, and every string of up
\* to MaxTag characters over LangChars (which spells "c", "C#", "c++", "css",
\* "cs", "" and tags that are neither supported nor aliases).
MaxTag == 3
LangChars == {"c", "S", "#", "+"}
Tags ==
    LET names == supported \cup MappingKeys
        capitalize(n) == upper(SubSeq(n, 1, 1)) \o SubSeq(n, 2, Len(n))
    IN  names \cup { upper(n) : n \in names }
              \cup { capitalize(n) : n \in names }
              \cup UNION { [1 .. n -> LangChars] : n \in 0 .. MaxTag }

InitLang ==
    /\ ClientOff
    /\ ChunkOff
    /\ ConvOff
    /\ AuxOff
    /\ lang \in Tags
    /\ mapped = <<>>

\* One call of map_language: on the tag first, then on what the call before
\* returned.
map_language_call ==
    /\ Len(mapped) < 2
    /\ mapped' = Append(mapped,
                        map_language(IF mapped = <<>> THEN lang
                                     ELSE mapped[Len(mapped)]))
    /\ UNCHANGED lang
    /\ UNCHANGED <<clientVars, chunkVars, convVars, auxVars>>

NextLang == map_language_call

SpecLang == InitLang /\ [][NextLang]_vars


\* ================================================= the two NotionConverters
\* src/narko.py (the single-file script) and src/src/narko/converter.py (the
\* package) each define a NotionConverter. Both are modelled; `conv` says
\* which one runs. Text is a sequence of one-character strings.

\* --------------------------------------------------------- program constants
\* chunk_text's default limit, the rich-text ceiling.
ChunkLimit == 2000
\* str(node)[:500] in _convert_unknown_node.
DumpLimit == 500

\* ------------------------------------------------------------ string helpers
\* s.startswith(p)
startswith(s, p) == Len(s) >= Len(p) /\ SubSeq(s, 1, Len(p)) = p

\* p in s
contains(s, p) ==
    \E i \in 0 .. (Len(s) - Len(p)) : SubSeq(s, i + 1, i + Len(p)) = p

\* ''.join(parts)
RECURSIVE join(_)
join(parts) == IF parts = <<>> THEN <<>> ELSE Head(parts) \o join(Tail(parts))

\* chunk_text(text, limit) as a function: the early return, then the loop.
RECURSIVE chunk_while(_, _)
chunk_while(s, lim) ==
    IF s = <<>> THEN <<>>
    ELSE IF Len(s) <= lim THEN <<s>>
    ELSE <<SubSeq(s, 1, split_pos(s, lim))>>
         \o chunk_while(lstrip(SubSeq(s, split_pos(s, lim) + 1, Len(s))), lim)

chunk_text(s, lim) == IF Len(s) <= lim THEN <<s>> ELSE chunk_while(s, lim)

\* ------------------------------------------- the callout marker expressions
\* \w: letters, digits and the underscore.
WordChars ==
    { LowerLetters[i] : i \in 1 .. 26 } \cup { UpperLetters[i] : i \in 1 .. 26 }
        \cup {"0", "1", "2", "3", "4", "5", "6", "7", "8", "9", "_"}

\* Length of the longest run of characters of cs in s from index i on.
RECURSIVE run_len(_, _, _)
run_len(s, i, cs) ==
    IF i <= Len(s) /\ s[i] \in cs THEN 1 + run_len(s, i + 1, cs) ELSE 0

\* Length of what ^\[!\w+\]\s* matches at the start of s; 0 when it does not
\* match. (\w+ is greedy and "]" is not a word character, so the tag is the
\* whole run of word characters behind "[!".)
marker_len(s) ==
    LET w == run_len(s, 3, WordChars)
    IN  IF /\ Len(s) >= 4
           /\ s[1] = "["
           /\ s[2] = "!"
           /\ w >= 1
           /\ 3 + w <= Len(s)
           /\ s[3 + w] = "]"
        THEN 3 + w + run_len(s, 4 + w, Whitespace)
        ELSE 0

\* re.match(r'\[!(\w+)\]\s*(.*)', first_text) is not None
callout_match(s) == marker_len(s) > 0
\* callout_match.group(1)
callout_group1(s) == SubSeq(s, 3, 2 + run_len(s, 3, WordChars))
\* re.sub(r'^\[!\w+\]\s*', '', s)
strip_marker(s) == SubSeq(s, marker_len(s) + 1, Len(s))



\* -------------------------------------------------------------- syntax nodes
\* A node of the marko tree. One record shape serves every kind:
\*   kind      type(node).__name__
\*   level     Heading.level
\*   tag       FencedCode.lang, CalloutBlock.callout_type
\*   file_type FileUploadBlock.file_type
\*   s         the string the node carries: RawText/CodeSpan/HTMLBlock.children,
\*             Image/Link.dest, MathBlock/TaskListItem/Highlight/InlineMath.content,
\*             FileUploadBlock.file_path, CalloutBlock.title
\*   flag      List.ordered, TaskListItem.checked
\*   children  the child nodes (empty for the kinds whose children is a string)
\*   dump      str(node)
DefaultDump == <<"<", "n", "o", "d", "e", ">">>
Node(kind, level, tag, s, flag, children, dump) ==
    [kind |-> kind, level |-> level, tag |-> tag, file_type |-> "", s |-> s,
     flag |-> flag, children |-> children, dump |-> dump]
Leaf(kind, s) == Node(kind, 0, <<>>, s, FALSE, <<>>, DefaultDump)
Inner(kind, children) == Node(kind, 0, <<>>, <<>>, FALSE, children, DefaultDump)

RawText(s) == Leaf("RawText", s)
Paragraph(children) == Inner("Paragraph", children)
Heading(level, children) ==
    Node("Heading", level, <<>>, <<>>, FALSE, children, DefaultDump)
CodeBlock(s) == Inner("CodeBlock", <<RawText(s)>>)
FencedCode(tag, s) ==
    Node("FencedCode", 0, tag, <<>>, FALSE, <<RawText(s)>>, DefaultDump)
ListItem(children) == Inner("ListItem", children)
List(ordered, children) ==
    Node("List", 0, <<>>, <<>>, ordered, children, DefaultDump)
Quote(children) == Inner("Quote", children)
CalloutBlock(tag, title) ==
    Node("CalloutBlock", 0, tag, title, FALSE, <<>>, DefaultDump)
FileUploadBlock(file_type, file_path) ==
    [Node("FileUploadBlock", 0, <<>>, file_path, FALSE, <<>>, DefaultDump)
        EXCEPT !.file_type = file_type]
\* A node of a kind neither converter dispatches on (a link reference
\* definition, say), with its str().
Unknown(dump) == Node("LinkRefDef", 0, <<>>, <<>>, FALSE, <<>>, dump)

\* The kinds whose `children` attribute is a string.
StrKinds == {"RawText", "CodeSpan", "HTMLBlock"}

\* TaskListItem.pattern: ^( {0,3})- \[([ xX])\] (.*)$ against one line.
\* task_indent is the length of group 1, -1 when the line does not match.
task_indent(line) ==
    LET ind == run_len(line, 1, {" "})
    IN  IF /\ ind <= 3
           /\ Len(line) >= ind + 6
           /\ SubSeq(line, ind + 1, ind + 3) = <<"-", " ", "[">>
           /\ line[ind + 4] \in {" ", "x", "X"}
           /\ SubSeq(line, ind + 5, ind + 6) = <<"]", " ">>
        THEN ind
        ELSE -1

\* TaskListItem.__init__, the same in narko.py and extensions/blocks.py:
\* checked = match.group(2).lower() == 'x'; content = match.group(3);
\* children = [] (blocks.py).
TaskListItem(line) ==
    Node("TaskListItem", 0, <<>>,
         SubSeq(line, task_indent(line) + 7, Len(line)),
         lower(<<line[task_indent(line) + 4]>>) = <<"x">>,
         <<>>, DefaultDump)



\* ------------------------------------------------------------ output blocks
\* A rich-text fragment: its type (text, equation), its text content, the
\* one annotation set on it (none when there is none), its link, and the
\* expression of an equation fragment.
Frag(content, ann, link) ==
    [type |-> "text", content |-> content, ann |-> ann, link |-> link,
     expression |-> <<>>]
\* {"type": "text", "text": {"content": content}}
TextFrag(content) == Frag(content, "none", <<>>)

\* An output block. One record shape serves every block type; a field a
\* block type does not have keeps the value it has here.
Block(type) ==
    [type |-> type, rich_text |-> <<>>, language |-> <<>>, checked |-> FALSE,
     icon |-> "", expression |-> <<>>, ref |-> "none", url |-> <<>>,
     children |-> <<>>]
TextBlock(type, rich_text) == [Block(type) EXCEPT !.rich_text = rich_text]

\* The level left as the node has it.
heading_level_unclamped(level) == level
\* level = min(node.level, 3)
heading_level(level) == Min(level, 3)

\* f"heading_{level}"
heading_type(level) == "heading_" \o ToString(level)

\* ------------------------------------------- src/narko.py: NotionConverter
\* create_rich_text(text, annotations, link): one fragment per chunk.
create_rich_text(s, ann, link) ==
    LET cs == chunk_text(s, ChunkLimit)
    IN  [i \in 1 .. Len(cs) |-> Frag(cs[i], ann, link)]

\* s.strip()
RECURSIVE rstrip(_)
rstrip(s) ==
    IF s # <<>> /\ s[Len(s)] \in Whitespace
    THEN rstrip(SubSeq(s, 1, Len(s) - 1))
    ELSE s
strip(s) == rstrip(lstrip(s))

\* extract_text(element)
RECURSIVE extract_text(_)
extract_text(e) ==
    IF e.kind \in StrKinds THEN e.s
    ELSE IF e.kind = "LineBreak" THEN e.dump
    ELSE join([i \in 1 .. Len(e.children) |-> extract_text(e.children[i])])

\* The fragments extract_rich_text appends for one element.
element_rich_text(e) ==
    CASE e.kind = "RawText" -> create_rich_text(e.s, "none", <<>>)
      [] e.kind = "Highlight" -> create_rich_text(e.s, "yellow_background", <<>>)
      [] e.kind = "InlineMath" ->
             create_rich_text(<<"$">> \o e.s \o <<"$">>, "code", <<>>)
      [] e.kind = "Emphasis" -> create_rich_text(extract_text(e), "italic", <<>>)
      [] e.kind = "StrongEmphasis" ->
             create_rich_text(extract_text(e), "bold", <<>>)
      [] e.kind = "CodeSpan" -> create_rich_text(e.s, "code", <<>>)
      [] e.kind = "Link" -> create_rich_text(extract_text(e), "none", e.s)
      [] e.kind = "LineBreak" -> create_rich_text(<<"\n">>, "none", <<>>)
      [] OTHER -> IF extract_text(e) # <<>>
                  THEN create_rich_text(extract_text(e), "none", <<>>)
                  ELSE <<>>

\* extract_rich_text(children), with its placeholder for an empty result.
extract_rich_text(children) ==
    LET rich_text ==
            join([i \in 1 .. Len(children) |-> element_rich_text(children[i])])
    IN  IF rich_text # <<>> THEN rich_text ELSE <<TextFrag(<<>>)>>

\* emoji_map.get(key, default pin), the emoji by name.
emoji_map_get(key) ==
    CASE key = <<"N", "O", "T", "E">> -> "information"
      [] key = <<"T", "I", "P">> -> "bulb"
      [] key = <<"W", "A", "R", "N", "I", "N", "G">> -> "warning"
      [] key = <<"D", "A", "N", "G", "E", "R">> -> "siren"
      [] key = <<"I", "N", "F", "O">> -> "information"
      [] key = <<"I", "M", "P", "O", "R", "T", "A", "N", "T">> -> "exclamation"
      [] key = <<"E", "X", "A", "M", "P", "L", "E">> -> "memo"
      [] key = <<"Q", "U", "O", "T", "E">> -> "speech"
      [] OTHER -> "pin"

\* The modified_children create_callout builds from the first paragraph:
\* the first child, when its children is a string, is replaced by a node of
\* its kind holding what the substitution leaves, or dropped when that is
\* empty.
modified_children(children) ==
    IF children # <<>> /\ children[1].kind \in StrKinds
    THEN IF strip_marker(children[1].s) # <<>>
         THEN <<[children[1] EXCEPT !.s = strip_marker(children[1].s)]>>
              \o Tail(children)
         ELSE Tail(children)
    ELSE children

\* What create_callout adds to callout_content for child i of the quote.
callout_part(quote_node, i) ==
    LET child == quote_node.children[i]
    IN  IF child.kind # "Paragraph" THEN <<>>
        ELSE IF i = 1
        THEN IF modified_children(child.children) # <<>>
             THEN extract_rich_text(modified_children(child.children))
             ELSE <<>>
        ELSE extract_rich_text(child.children)

\* create_callout taking the first paragraph only.
create_callout_first_only(quote_node, callout_type) ==
    [Block("callout") EXCEPT
        !.rich_text = IF quote_node.children = <<>> THEN <<>>
                      ELSE callout_part(quote_node, 1),
        !.icon = emoji_map_get(upper(callout_type))]

\* create_callout(quote_node, callout_type, title)
create_callout(quote_node, callout_type) ==
    [Block("callout") EXCEPT
        !.rich_text = join([i \in 1 .. Len(quote_node.children) |->
                               callout_part(quote_node, i)]),
        !.icon = emoji_map_get(upper(callout_type))]

\* The rich text of every Paragraph child, in order (quote and list item).
paragraphs_rich_text(children) ==
    join([i \in 1 .. Len(children) |->
             IF children[i].kind = "Paragraph"
             THEN extract_rich_text(children[i].children)
             ELSE <<>>])

\* The Quote branch's test for a callout: the quote has a first child, that
\* child has a first child, whose children is a string the marker matches.
is_callout_quote(node) ==
    /\ node.children # <<>>
    /\ node.children[1].kind \notin StrKinds
    /\ node.children[1].children # <<>>
    /\ node.children[1].children[1].kind \in StrKinds
    /\ callout_match(node.children[1].children[1].s)

\* The block of one ListItem of a list.
list_item_block(item, ordered) ==
    TextBlock(IF ordered THEN "numbered_list_item" ELSE "bulleted_list_item",
              paragraphs_rich_text(item.children))

\* process_node(node): the blocks convert adds for the node (none for a
\* None result, the elements of a list result).
process_node(node) ==
    CASE node.kind = "MathBlock" ->
             <<[Block("equation") EXCEPT !.expression = node.s]>>
      [] node.kind = "TaskListItem" ->
             <<[Block("to_do") EXCEPT
                   !.rich_text = create_rich_text(node.s, "none", <<>>),
                   !.checked = node.flag]>>
      [] node.kind = "Heading" ->
             <<TextBlock(heading_type(heading_level(node.level)),
                         extract_rich_text(node.children))>>
      [] node.kind = "Paragraph" ->
             IF /\ node.children # <<>>
                /\ node.children[1].kind \in StrKinds
                /\ startswith(node.children[1].s, <<"[", "!">>)
             THEN <<>>
             ELSE <<TextBlock("paragraph", extract_rich_text(node.children))>>
      [] node.kind \in {"CodeBlock", "FencedCode"} ->
             LET code_text == IF node.children # <<>>
                              THEN node.children[1].s ELSE <<>>
                 cs == chunk_text(code_text, ChunkLimit)
             IN  <<[Block("code") EXCEPT
                       !.rich_text = [i \in 1 .. Len(cs) |-> TextFrag(cs[i])],
                       !.language = IF node.tag # <<>>
                                    THEN map_language(strip(node.tag))
                                    ELSE PlainText]>>
      [] node.kind = "Quote" ->
             IF is_callout_quote(node)
             THEN <<create_callout(node,
                       callout_group1(node.children[1].children[1].s))>>
             ELSE <<TextBlock("quote", paragraphs_rich_text(node.children))>>
      [] node.kind = "List" ->
             LET items == SelectSeq(node.children,
                                    LAMBDA c : c.kind = "ListItem")
             IN  [i \in 1 .. Len(items) |-> list_item_block(items[i], node.flag)]
      [] node.kind = "ThematicBreak" -> <<Block("divider")>>
      [] node.kind = "BlankLine" -> <<>>
      [] OTHER -> <<>>


\* ------------------------- src/src/narko/converter.py: NotionConverter
\* What file_uploader.upload_file does when called: returns a result with an
\* id, returns a result without one (an error result), returns None, raises.
UploadOutcomes == {"id", "noid", "none", "raise"}

\* _extract_plain_text(children)
RECURSIVE _extract_plain_text(_)
_extract_plain_text(children) ==
    join([i \in 1 .. Len(children) |->
             IF children[i].kind \in StrKinds THEN children[i].s
             ELSE IF children[i].kind = "LineBreak" THEN children[i].dump
             ELSE _extract_plain_text(children[i].children)])

\* _extract_text_data(node): the fragment, or none.
_extract_text_data(node) ==
    CASE node.kind = "RawText" -> <<TextFrag(node.s)>>
      [] node.kind = "Emphasis" ->
             <<Frag(_extract_plain_text(<<node>>), "italic", <<>>)>>
      [] node.kind = "StrongEmphasis" ->
             <<Frag(_extract_plain_text(<<node>>), "bold", <<>>)>>
      [] node.kind = "InlineCode" -> <<Frag(node.s, "code", <<>>)>>
      [] node.kind = "Link" ->
             <<Frag(_extract_plain_text(node.children), "none", node.s)>>
      [] node.kind = "Image" ->
             <<TextFrag(<<"[", "I", "m", "a", "g", "e", ":", " ">>
                        \o (IF _extract_plain_text(node.children) # <<>>
                            THEN _extract_plain_text(node.children)
                            ELSE node.s)
                        \o <<"]">>)>>
      [] node.kind = "InlineMath" ->
             <<[TextFrag(<<>>) EXCEPT !.type = "equation",
                                      !.expression = node.s]>>
      [] node.kind = "Highlight" ->
             <<Frag(_extract_plain_text(node.children), "yellow_background",
                    <<>>)>>
      [] OTHER -> IF \E i \in 1 .. Len(node.dump) : node.dump[i] \notin Whitespace THEN <<TextFrag(node.dump)>> ELSE <<>>

\* _extract_rich_text(children)
_extract_rich_text(children) ==
    join([i \in 1 .. Len(children) |-> _extract_text_data(children[i])])

\* The rich text of every Paragraph child, in order.
_paragraphs_rich_text(children) ==
    join([i \in 1 .. Len(children) |->
             IF children[i].kind = "Paragraph"
             THEN _extract_rich_text(children[i].children)
             ELSE <<>>])

\* _create_text_block(content)
_create_text_block(content) == TextBlock("paragraph", <<TextFrag(content)>>)

\* _is_local_file(path)
_is_local_file(path) ==
    /\ ~startswith(path, <<"h", "t", "t", "p", ":", "/", "/">>)
    /\ ~startswith(path, <<"h", "t", "t", "p", "s", ":", "/", "/">>)
    /\ path \in disk

\* _is_embeddable_url(url): some domain of the list occurs in
\* urlparse(url).netloc, which is what stands between the first "//" and the
\* next "/".
_is_embeddable_url(url) ==
    LET \* index of the first "/" at or after index i; Len(url) + 1 when none
        next_slash(i) ==
            IF \E k \in i .. Len(url) : url[k] = "/"
            THEN CHOOSE k \in i .. Len(url) :
                     /\ url[k] = "/"
                     /\ \A j \in i .. k - 1 : url[j] # "/"
            ELSE Len(url) + 1
        a == next_slash(1)
        netloc == IF a < Len(url) /\ url[a + 1] = "/"
                  THEN SubSeq(url, a + 2, next_slash(a + 2) - 1)
                  ELSE <<>>
        embeddable_domains == {
            <<"y", "o", "u", "t", "u", "b", "e", ".", "c", "o", "m">>, <<"y", "o", "u", "t", "u", ".", "b", "e">>, <<"v", "i", "m", "e", "o", ".", "c", "o", "m">>,
            <<"t", "w", "i", "t", "t", "e", "r", ".", "c", "o", "m">>, <<"x", ".", "c", "o", "m">>,
            <<"g", "i", "t", "h", "u", "b", ".", "c", "o", "m">>, <<"g", "i", "s", "t", ".", "g", "i", "t", "h", "u", "b", ".", "c", "o", "m">>,
            <<"c", "o", "d", "e", "p", "e", "n", ".", "i", "o">>, <<"j", "s", "f", "i", "d", "d", "l", "e", ".", "n", "e", "t">> }
    IN  \E d \in embeddable_domains : contains(netloc, d)

\* A reference block (image, file, video, pdf, audio, embed): ref says how it
\* refers to its content: file_upload (an uploaded id) or external (url).
FileUploadRef(type) == [Block(type) EXCEPT !.ref = "file_upload"]
ExternalRef(type, url) == [Block(type) EXCEPT !.ref = "external", !.url = url]

\* icon_map.get(callout_type, default), the emoji by name.
icon_map_get(key) ==
    CASE key = <<"n", "o", "t", "e">> -> "memo"
      [] key = <<"i", "n", "f", "o">> -> "information"
      [] key = <<"t", "i", "p">> -> "bulb"
      [] key = <<"w", "a", "r", "n", "i", "n", "g">> -> "warning"
      [] key = <<"d", "a", "n", "g", "e", "r">> -> "siren"
      [] key = <<"s", "u", "c", "c", "e", "s", "s">> -> "check"
      [] OTHER -> "information"

\* _convert_image(node), up being what upload_file does if called.
_convert_image(node, up) ==
    IF _is_local_file(node.s)
    THEN CASE up = "id" -> <<FileUploadRef("image")>>
           [] up = "raise" ->
                  <<_create_text_block(<<"[", "I", "m", "a", "g", "e", " ", "u", "p", "l", "o", "a", "d", " ", "f", "a", "i", "l", "e", "d", ":", " ">> \o node.s
                                       \o <<"]">>)>>
           [] OTHER -> <<>>
    ELSE <<ExternalRef("image", node.s)>>

\* _convert_file_upload_block(node), up being what upload_file does if called.
_convert_file_upload_block(node, up) ==
    IF _is_local_file(node.s)
    THEN CASE up = "id" ->
                  <<FileUploadRef(IF node.file_type
                                        \in {"image", "video", "audio", "pdf"}
                                  THEN node.file_type ELSE "file")>>
           [] up = "raise" ->
                  <<_create_text_block(<<"[", "F", "i", "l", "e", " ", "u", "p", "l", "o", "a", "d", " ", "f", "a", "i", "l", "e", "d", ":", " ">> \o node.s
                                       \o <<"]">>)>>
           [] OTHER -> <<>>
    ELSE <<ExternalRef(node.file_type, node.s)>>

\* _convert_unknown_node(node)
_convert_unknown_node(node) ==
    <<_create_text_block(<<"[", "U", "n", "k", "n", "o", "w", "n", " ", "n", "o", "d", "e", ":", " ">>
                         \o SubSeq(node.dump, 1, Min(DumpLimit, Len(node.dump)))
                         \o <<"]">>)>>

\* The kinds process_node (narko.py) and _convert_node (converter.py) have a
\* branch for.
narko_kinds == {
    "MathBlock", "TaskListItem", "Heading", "Paragraph", "CodeBlock",
    "FencedCode", "Quote", "List", "ThematicBreak", "BlankLine" }
package_kinds == {
    "Paragraph", "Heading", "CodeBlock", "FencedCode", "List", "ListItem",
    "Quote", "ThematicBreak", "Image", "Link", "HTMLBlock", "MathBlock",
    "CalloutBlock", "TaskListItem", "FileUploadBlock" }

\* _convert_node(node): the blocks convert adds for the node (none for a None
\* result, the elements of a list result). _convert_list_item is part of it,
\* the two calling each other.
RECURSIVE _convert_node(_, _)
_convert_list_item(node, is_ordered, up) ==
    LET list_type == IF is_ordered THEN "numbered_list_item"
                     ELSE "bulleted_list_item"
        \* children.append(child_block): a dict, or the list a nested List gave
        child_block(child) ==
            LET r == _convert_node(child, up)
            IN  IF r = <<>> THEN <<>>
                ELSE IF child.kind = "List"
                THEN <<[Block("list") EXCEPT !.children = r]>>
                ELSE r
    IN  [TextBlock(list_type, _paragraphs_rich_text(node.children)) EXCEPT
            !.children = join([i \in 1 .. Len(node.children) |->
                                  IF node.children[i].kind = "Paragraph"
                                  THEN <<>>
                                  ELSE child_block(node.children[i])])]

_convert_node(node, up) ==
    CASE node.kind = "Paragraph" ->
             <<TextBlock("paragraph", _extract_rich_text(node.children))>>
      [] node.kind = "Heading" ->
             <<TextBlock(heading_type(heading_level(node.level)),
                         _extract_rich_text(node.children))>>
      [] node.kind = "CodeBlock" ->
             <<[Block("code") EXCEPT
                   !.rich_text = <<TextFrag(node.children[1].s)>>,
                   !.language = lower(IF node.tag # <<>> THEN node.tag
                                      ELSE PlainText)]>>
      [] node.kind = "FencedCode" ->
             <<[Block("code") EXCEPT
                   \* a non-empty node.children is handed on as the list
                   \* itself, one entry per child node
                   !.rich_text = <<TextFrag(IF node.children # <<>>
                                            THEN [i \in 1 .. Len(node.children) |-> "node"]
                                            ELSE node.dump)>>,
                   !.language = lower(IF node.tag # <<>> THEN node.tag
                                      ELSE PlainText)]>>
      [] node.kind = "List" ->
             [i \in 1 .. Len(node.children) |->
                 _convert_list_item(node.children[i], node.flag, up)]
      [] node.kind = "ListItem" -> <<_convert_list_item(node, FALSE, up)>>
      [] node.kind = "Quote" ->
             <<TextBlock("quote", _paragraphs_rich_text(node.children))>>
      [] node.kind = "ThematicBreak" -> <<Block("divider")>>
      [] node.kind = "Image" -> _convert_image(node, up)
      [] node.kind = "Link" ->
             IF _is_embeddable_url(node.s)
             THEN <<[Block("embed") EXCEPT !.url = node.s]>>
             ELSE <<>>
      [] node.kind = "HTMLBlock" -> <<TextBlock("paragraph", <<TextFrag(node.s)>>)>>
      [] node.kind = "MathBlock" ->
             <<[Block("equation") EXCEPT !.expression = strip(node.s)]>>
      [] node.kind = "CalloutBlock" ->
             <<[Block("callout") EXCEPT
                   !.rich_text =
                       (IF node.s # <<>>
                        THEN <<Frag(node.s \o <<":", " ">>, "bold", <<>>)>>
                        ELSE <<>>)
                       \o _paragraphs_rich_text(node.children),
                   !.icon = icon_map_get(lower(node.tag))]>>
      [] node.kind = "TaskListItem" ->
             <<[Block("to_do") EXCEPT
                   !.rich_text = _paragraphs_rich_text(node.children),
                   !.checked = node.flag]>>
      [] node.kind = "FileUploadBlock" -> _convert_file_upload_block(node, up)
      [] OTHER -> _convert_unknown_node(node)


\* -------------------------------------------------- the documents converted
\* Heading levels run from 0 to MaxLevel.
MaxLevel == 5
\* The long text has ChunkLimit + MaxLong characters, the long node dump
\* DumpLimit + MaxLong.
MaxLong == 1
\* A document is one node of Subjects with up to MaxAround plain nodes before
\* it and up to MaxAround behind it.
MaxAround == 1

LongText == [i \in 1 .. ChunkLimit + MaxLong |-> "a"]
Short == <<"a", "b">>
LocalPath == <<".", "/", "a", ".", "p", "n", "g">>
RemoteUrl == <<"h", "t", "t", "p", "s", ":", "/", "/", "e", ".", "c", "o", "m", "/", "a", ".", "p", "n", "g">>

\* The text "[!tag]", the whitespace ws, then rest.
Marker(t, ws, rest) == <<"[", "!">> \o t \o <<"]">> \o ws \o rest

\* The line of ind spaces, "- [c] " and the text s.
TaskLine(ind, c, s) ==
    [i \in 1 .. ind |-> " "] \o <<"-", " ", "[">> \o <<c>> \o <<"]", " ">> \o s

\* Task lines: the three checkbox characters, an indented line, a text with
\* a space in it.
TaskLines == {
    TaskLine(0, " ", Short), TaskLine(0, "x", Short), TaskLine(0, "X", Short),
    TaskLine(3, "x", <<"a", " ", "b">>), TaskLine(0, " ", <<"x">>) }

\* The nodes a document of converter c is built around.
Subjects(c) ==
    LET Para(s) == Paragraph(<<RawText(s)>>)
        Em(s) == Inner("Emphasis", <<RawText(s)>>)
        Break == Leaf("LineBreak", <<>>)
        Rule == Leaf("ThematicBreak", <<>>)
        NoteAb == Marker(<<"N", "O", "T", "E">>, <<" ">>, Short)
        \* First text runs of a quote: markers in several casings, an
        \* unmapped tag, a tag of digits and underscore with nothing behind
        \* it, and runs the marker expression does not match.
        MarkerRuns == {
            NoteAb, Marker(<<"n", "o", "t", "e">>, <<>>, <<>>),
            Marker(<<"T", "i", "p">>, <<" ", " ">>, Short),
            Marker(<<"W", "A", "R", "N", "I", "N", "G">>, <<" ">>, <<"a", " ", "b">>),
            Marker(<<"F", "O", "O">>, <<" ">>, Short), Marker(<<"a", "_", "1">>, <<>>, Short) }
        PlainRuns == {
            Short, <<"[", "!", "]", " ", "a", "b">>, <<"[", "N", "O", "T", "E", "]", " ", "a", "b">>, <<"[", "!", "N", "O", "T", "E">>, <<"a", " ", "[", "!", "N", "O", "T", "E", "]", " ", "b">> }
        Paragraphs == {
            Para(Short), Para(NoteAb), Para(LongText),
            Paragraph(<<RawText(Short), Break, RawText(Short)>>),
            Paragraph(<<Em(Short)>>),
            Paragraph(<<Leaf("InlineMath", Short)>>) }
        Headings ==
            { Heading(l, ch) : l \in 0 .. MaxLevel,
                               ch \in {<<>>, <<RawText(Short)>>} }
        Codes ==
            { CodeBlock(Short), CodeBlock(LongText),
              FencedCode(<<>>, <<>>), FencedCode(<<>>, LongText) }
                \cup { FencedCode(t, Short) :
                          t \in {<<>>, <<"p", "y">>, <<" ", "P", "y", "t", "h", "o", "n", " ">>} }
        Lists ==
            UNION { { List(o, <<ListItem(<<Para(Short)>>)>>),
                      List(o, <<ListItem(<<>>)>>),
                      List(o, <<ListItem(<<Para(Short), Para(Short)>>),
                                ListItem(<<Para(Short),
                                           List(FALSE,
                                                <<ListItem(<<Para(Short)>>)>>)
                                         >>)>>),
                      List(o, <<ListItem(<<Rule>>)>>) } : o \in BOOLEAN }
        Quotes ==
            { Quote(<<Para(r)>>) : r \in MarkerRuns \cup PlainRuns }
                \cup { Quote(<<Para(r), Para(Short)>>) :
                          r \in {NoteAb, Marker(<<"n", "o", "t", "e">>, <<>>, <<>>), Short} }
                \cup { Quote(<<>>),
                       Quote(<<Heading(1, <<RawText(Short)>>)>>),
                       Quote(<<Heading(1, <<RawText(NoteAb)>>), Para(Short)>>),
                       Quote(<<Paragraph(<<RawText(Marker(<<"N", "O", "T", "E">>, <<>>, <<>>)),
                                           Break, RawText(Short)>>)>>),
                       Quote(<<Paragraph(<<RawText(Marker(<<"N", "O", "T", "E">>, <<" ">>, <<>>)),
                                           Em(Short)>>)>>),
                       Quote(<<Paragraph(<<Em(NoteAb)>>)>>),
                       Quote(<<Para(Marker(<<"T", "I", "P">>, <<" ">>, Short)), Rule,
                               Para(Short), Paragraph(<<Em(Short)>>)>>) }
        Unknowns ==
            { Unknown(DefaultDump) }
                \cup { Unknown([i \in 1 .. n |-> "d"]) :
                          n \in DumpLimit .. DumpLimit + MaxLong }
        \* Nodes both parsers produce at the top of a document.
        CommonNodes ==
            Paragraphs \cup Headings \cup Codes \cup Lists \cup Quotes
                \cup Unknowns
                \cup { TaskListItem(l) : l \in TaskLines }
                \cup { Rule, Leaf("BlankLine", <<>>), Leaf("HTMLBlock", Short),
                       Leaf("MathBlock", <<" ", "a", "b", " ">>) }
        \* Nodes of the kinds only the package knows of.
        PackageNodes ==
            { Leaf("Image", p) : p \in {LocalPath, RemoteUrl} }
                \cup { FileUploadBlock(t, p) :
                          t \in {"image", "pdf", "file"},
                          p \in {LocalPath, RemoteUrl} }
                \cup { Leaf("Link", u) :
                          u \in {RemoteUrl, <<"h", "t", "t", "p", "s", ":", "/", "/", "y", "o", "u", "t", "u", ".", "b", "e", "/", "a">>} }
                \cup { CalloutBlock(t, s) : t \in {<<"N", "O", "T", "E">>, <<"F", "O", "O">>},
                                            s \in {<<>>, Short} }
                \cup { ListItem(<<Para(Short)>>) }
    IN  IF c = "package" THEN CommonNodes \cup PackageNodes ELSE CommonNodes

Docs(c) ==
    LET Plain == { Paragraph(<<RawText(Short)>>), Leaf("ThematicBreak", <<>>) }
        Around == UNION { [1 .. n -> Plain] : n \in 0 .. MaxAround }
    IN  { a \o <<n>> \o b : a \in Around, n \in Subjects(c), b \in Around }

\* ------------------------------------------------------------------ convert
InitConvert ==
    /\ ClientOff
    /\ ChunkOff
    /\ LangOff
    /\ AuxOff
    /\ conv \in {"narko", "package"}
    /\ ast \in Docs(conv)
    /\ disk \in SUBSET {LocalPath}
    /\ pos = 1
    /\ cblocks = <<>>
    /\ emitted = <<>>
    /\ uploads = <<>>
    /\ cvpc = "loop"

\* The node makes _convert_node call upload_file.
calls_upload(node) ==
    node.kind \in {"Image", "FileUploadBlock"} /\ _is_local_file(node.s)

\* The result put in front of the blocks collected so far.
splice_front(bs, block_data) == block_data \o bs

\* `if result:` then blocks.extend(result) for a list, blocks.append(result)
\* for a single block, nothing for None or an empty list; block_data is the
\* sequence of blocks the node gave, bs the blocks collected so far.
splice(bs, block_data) == bs \o block_data

\* narko.py convert: one pass of `for child in ast.children`.
convert_narko ==
    /\ cvpc = "loop"
    /\ conv = "narko"
    /\ pos <= Len(ast)
    /\ cblocks' = splice(cblocks, process_node(ast[pos]))
    /\ emitted' = Append(emitted, process_node(ast[pos]))
    /\ uploads' = Append(uploads, "-")
    /\ pos' = pos + 1
    /\ UNCHANGED <<conv, ast, disk, cvpc>>
    /\ UNCHANGED <<clientVars, chunkVars, langVars, auxVars>>

\* converter.py convert: one pass of `for child in ast.children`; up is what
\* upload_file does if the node has it called.
convert_package(up) ==
    /\ cvpc = "loop"
    /\ conv = "package"
    /\ pos <= Len(ast)
    /\ cblocks' = splice(cblocks, _convert_node(ast[pos], up))
    /\ emitted' = Append(emitted, _convert_node(ast[pos], up))
    /\ uploads' = Append(uploads, IF calls_upload(ast[pos]) THEN up ELSE "-")
    /\ pos' = pos + 1
    /\ UNCHANGED <<conv, ast, disk, cvpc>>
    /\ UNCHANGED <<clientVars, chunkVars, langVars, auxVars>>

\* return blocks
convert_return ==
    /\ cvpc = "loop"
    /\ pos > Len(ast)
    /\ cvpc' = "done"
    /\ UNCHANGED <<conv, ast, disk, pos, cblocks, emitted, uploads>>
    /\ UNCHANGED <<clientVars, chunkVars, langVars, auxVars>>

NextConvert ==
    \/ convert_narko
    \/ \E up \in UploadOutcomes : convert_package(up)
    \/ convert_return

SpecConvert == InitConvert /\ [][NextConvert]_vars


\* ---------------------------------------------------------- extract_page_id
\* [0-9a-f] under re.IGNORECASE.
HexChars ==
    {"0", "1", "2", "3", "4", "5", "6", "7", "8", "9",
     "a", "b", "c", "d", "e", "f", "A", "B", "C", "D", "E", "F"}

\* The first run of 32 hexadecimal characters of s, as it stands.
extract_page_id_undashed(s) ==
    LET runs == { i \in 1 .. Len(s) - 31 :
                      \A k \in i .. i + 31 : s[k] \in HexChars }
    IN  IF runs = {} THEN s
        ELSE SubSeq(s, (CHOOSE i \in runs : \A j \in runs : i <= j),
                       (CHOOSE i \in runs : \A j \in runs : i <= j) + 31)

\* extract_page_id(url_or_id). re.match(uuid_pattern) with its ^ and $: $
\* also matches before a newline that ends the string. re.search gives the
\* leftmost run of 32 hexadecimal characters.
extract_page_id(s) ==
    LET dashes == {9, 14, 19, 24}
        uuid_match ==
            /\ Len(s) \in {36, 37}
            /\ Len(s) = 37 => s[37] = "\n"
            /\ \A k \in 1 .. 36 :
                   IF k \in dashes THEN s[k] = "-" ELSE s[k] \in HexChars
        runs == { i \in 1 .. Len(s) - 31 :
                      \A k \in i .. i + 31 : s[k] \in HexChars }
        first == CHOOSE i \in runs : \A j \in runs : i <= j
        uuid_str == SubSeq(s, first, first + 31)
    IN  IF s = <<>> THEN s
        ELSE IF uuid_match THEN s
        ELSE IF runs # {}
        THEN SubSeq(uuid_str, 1, 8) \o <<"-">> \o SubSeq(uuid_str, 9, 12)
                 \o <<"-">> \o SubSeq(uuid_str, 13, 16) \o <<"-">>
                 \o SubSeq(uuid_str, 17, 20) \o <<"-">>
                 \o SubSeq(uuid_str, 21, 32)
        ELSE s

\* The hexadecimal runs tried have 31 to 32 + MaxExtra characters.
MaxExtra == 1

\* The arguments tried: runs of hexadecimal characters just short of, of and
\* over 32 characters, one broken by a character that is none, two runs in
\* one string, dashed ids, well formed and not, each with text before and
\* behind it; the empty string and a short one.
PageIdInputs ==
    LET digits == <<"1", "2", "3", "4", "5", "6", "7", "8", "9", "0", "a", "b", "c", "d", "e", "f", "1", "2", "3", "4", "5", "6", "7", "8", "9", "0", "A", "B", "C", "D", "E", "F">>
        \* n hexadecimal characters
        hex(n) == [i \in 1 .. n |-> digits[((i - 1) % 32) + 1]]
        dashed == <<"1", "2", "3", "4", "5", "6", "7", "8", "-", "9", "0", "a", "b", "-", "c", "d", "e", "f", "-", "1", "2", "3", "4", "-", "5", "6", "7", "8", "9", "0", "A", "B", "C", "D", "E", "F">>
        before == { <<>>, <<"p", "-">>, <<"a", "b">>, <<"h", "t", "t", "p", "s", ":", "/", "/", "n", "o", "t", "i", "o", "n", ".", "s", "o", "/", "w", "/", "P", "a", "g", "e", "-">> }
        behind == { <<>>, <<"?", "v", "=", "1">>, <<"\n">>, <<"-">>, <<"x">> }
        ids == { hex(n) : n \in 31 .. 32 + MaxExtra }
                   \cup { dashed,
                          <<"1", "2", "3", "4", "5", "6", "7", "8", "-", "9", "0", "a", "b", "-", "c", "d", "e", "f", "-", "1", "2", "3", "4", "5", "6", "7", "8", "9", "0", "A", "B", "C", "D", "E", "F">>,
                          <<"1", "2", "3", "4", "5", "6", "7", "8", "-", "9", "0", "a", "b", "-", "c", "d", "e", "f", "-", "1", "2", "3", "4", "-", "5", "6", "7", "8", "9", "0", "A", "B", "C", "D", "E", "G">>,
                          hex(16) \o <<"g">> \o hex(16),
                          hex(20) \o <<"/">> \o <<"f", "e", "d", "c", "b", "a", "9", "8", "7", "6", "5", "4", "3", "2", "1", "0", "f", "e", "d", "c", "b", "a", "9", "8", "7", "6", "5", "4", "3", "2", "1", "0">> }
    IN  { a \o m \o b : a \in before, m \in ids, b \in behind }
            \cup { <<>>, <<"a", "b", "c">> }

InitPageId ==
    /\ ClientOff
    /\ ChunkOff
    /\ LangOff
    /\ ConvOff
    /\ url_or_id \in PageIdInputs
    /\ page_ids = <<>>
    /\ heap = <<>>
    /\ self_blocks = 0
    /\ calls = <<>>
    /\ attempt = 0
    /\ answers = {}
    /\ answer = "-"
    /\ poll = "off"
    /\ cache = <<>>
    /\ got = "-"
    /\ cleaned = -1

\* One application of extract_page_id: replace_all_blocks and
\* replace_content_blocks apply it to their argument, get_page_blocks
\* applies it again to what they hand on.
extract_page_id_call ==
    /\ Len(page_ids) < 2
    /\ page_ids' = Append(page_ids,
                          extract_page_id(IF page_ids = <<>> THEN url_or_id
                                          ELSE page_ids[Len(page_ids)]))
    /\ UNCHANGED <<url_or_id, heap, self_blocks, calls, attempt, answers,
                   answer, poll, cache, got, cleaned>>
    /\ UNCHANGED <<clientVars, chunkVars, langVars, convVars>>

NextPageId == extract_page_id_call

SpecPageId == InitPageId /\ [][NextPageId]_vars


\* ------------------------------------- two convert calls on one converter
\* narko.py's NotionConverter keeps the list it builds in self.blocks. Two
\* calls of convert on one instance, from two threads, are interleaved pass
\* by pass; heap holds the list objects, self_blocks says which of them
\* self.blocks refers to.

\* Documents have up to MaxDoc top-level nodes.
MaxDoc == 2

Threads == {1, 2}

InitShared ==
    LET \* a node giving one block, one giving none, one giving two
        nodes == { Paragraph(<<RawText(Short)>>),
                   Leaf("BlankLine", <<>>),
                   List(FALSE, <<ListItem(<<Paragraph(<<RawText(Short)>>)>>),
                                 ListItem(<<Paragraph(<<RawText(Short)>>)>>)>>) }
        docs == UNION { [1 .. n -> nodes] : n \in 0 .. MaxDoc }
    IN  /\ ClientOff
        /\ ChunkOff
        /\ LangOff
        /\ ConvOff
        /\ calls \in [Threads -> { [ast |-> d, pos |-> 1, pc |-> "idle",
                                    returned |-> 0] : d \in docs }]
        /\ heap = <<>>
        /\ self_blocks = 0
        /\ url_or_id = <<>>
        /\ page_ids = <<>>
        /\ attempt = 0
        /\ answers = {}
        /\ answer = "-"
        /\ poll = "off"
        /\ cache = <<>>
        /\ got = "-"
        /\ cleaned = -1

\* self.blocks = []: a new list object.
shared_convert_enter(t) ==
    /\ calls[t].pc = "idle"
    /\ heap' = Append(heap, <<>>)
    /\ self_blocks' = Len(heap) + 1
    /\ calls' = [calls EXCEPT ![t].pc = "loop"]
    /\ UNCHANGED <<url_or_id, page_ids, attempt, answers, answer, poll,
                   cache, got, cleaned>>
    /\ UNCHANGED <<clientVars, chunkVars, langVars, convVars>>

\* One pass of `for child in ast.children`: the result goes into the list
\* self.blocks refers to now.
shared_convert_loop(t) ==
    /\ calls[t].pc = "loop"
    /\ calls[t].pos <= Len(calls[t].ast)
    /\ heap' = [heap EXCEPT ![self_blocks] =
                   splice(@, process_node(calls[t].ast[calls[t].pos]))]
    /\ calls' = [calls EXCEPT ![t].pos = @ + 1]
    /\ UNCHANGED <<self_blocks, url_or_id, page_ids, attempt, answers, answer,
                   poll, cache, got, cleaned>>
    /\ UNCHANGED <<clientVars, chunkVars, langVars, convVars>>

\* return self.blocks: the list self.blocks refers to now.
shared_convert_return(t) ==
    /\ calls[t].pc = "loop"
    /\ calls[t].pos > Len(calls[t].ast)
    /\ calls' = [calls EXCEPT ![t].pc = "done", ![t].returned = self_blocks]
    /\ UNCHANGED <<heap, self_blocks, url_or_id, page_ids, attempt, answers,
                   answer, poll, cache, got, cleaned>>
    /\ UNCHANGED <<clientVars, chunkVars, langVars, convVars>>

NextShared ==
    \E t \in Threads :
        \/ shared_convert_enter(t)
        \/ shared_convert_loop(t)
        \/ shared_convert_return(t)

SpecShared == InitShared /\ [][NextShared]_vars


\* ----------------------------------- ExternalImporter._poll_for_completion
\* max_attempts = 30
MaxAttempts == 30

\* Polling on after an answer with status failed or expired.
poll_outcome_forgiving(a) ==
    IF a = "uploaded" THEN "success"
    ELSE IF a = "raise" THEN "raised"
    ELSE "polling"

\* What one status request leads to: a 200 answer with status uploaded,
\* failed or expired makes the function return; a 200 answer with another
\* status and a non-200 answer leave it polling; a request that raises
\* (requests.get has a timeout, .json() may fail) ends it with the exception.
poll_outcome(a) ==
    CASE a = "uploaded" -> "success"
      [] a = "failed" -> "failed"
      [] a = "expired" -> "expired"
      [] a = "raise" -> "raised"
      [] OTHER -> "polling"

\* The answers to a status request: 200 with a status, another status code,
\* or no answer at all.
PollAnswers == {"uploaded", "failed", "expired", "pending", "non200", "raise"}

InitPoll ==
    /\ ClientOff
    /\ ChunkOff
    /\ LangOff
    /\ ConvOff
    /\ attempt = 0
    /\ answers = {}
    /\ answer = "-"
    /\ poll = "polling"
    /\ url_or_id = <<>>
    /\ page_ids = <<>>
    /\ heap = <<>>
    /\ self_blocks = 0
    /\ calls = <<>>
    /\ cache = <<>>
    /\ got = "-"
    /\ cleaned = -1

\* One pass of `while attempt < max_attempts`: a is the answer to its GET.
poll_request(a) ==
    /\ poll = "polling"
    /\ attempt < MaxAttempts
    /\ attempt' = attempt + 1
    /\ answers' = IF answer = "-" THEN answers ELSE answers \cup {answer}
    /\ answer' = a
    /\ poll' = poll_outcome(a)
    /\ UNCHANGED <<url_or_id, page_ids, heap, self_blocks, calls, cache, got,
                   cleaned>>
    /\ UNCHANGED <<clientVars, chunkVars, langVars, convVars>>

\* The loop's test fails: the timeout error is returned.
poll_timeout ==
    /\ poll = "polling"
    /\ attempt >= MaxAttempts
    /\ poll' = "timeout"
    /\ UNCHANGED <<attempt, answers, answer>>
    /\ UNCHANGED <<url_or_id, page_ids, heap, self_blocks, calls, cache, got,
                   cleaned>>
    /\ UNCHANGED <<clientVars, chunkVars, langVars, convVars>>

NextPoll == (\E a \in PollAnswers : poll_request(a)) \/ poll_timeout

SpecPoll == InitPoll /\ [][NextPoll]_vars

\* The function runs on its caller's thread: a pass that can be made is made.
SpecPollFair == SpecPoll /\ WF_vars(NextPoll)


\* ------------------------------------------------------------ UploadCache
\* The cache file maps file hashes to entries. What get() and cleanup() look
\* at in an entry is its upload_timestamp: age is time.time() minus that
\* timestamp, in the unit in which ttl_seconds is Ttl; no time passes.

\* The cache has up to MaxHashes file hashes.
MaxHashes == 2
\* ttl_seconds, in the model's unit of time; ages run from 0 to Ttl + 1.
Ttl == 2
\* Size-based cleanup: keep max 1000 entries.
CacheLimit == 1000

\* No entry for the hash.
Absent == [kind |-> "absent", age |-> 0]

\* The entries a hash may have: the empty dict, a dict without
\* upload_timestamp, one whose timestamp fromisoformat() refuses, and dicts
\* with a timestamp of each age.
CacheEntries ==
    { [kind |-> k, age |-> 0] : k \in {"empty", "no_timestamp", "invalid"} }
        \cup { [kind |-> "dated", age |-> a] : a \in 0 .. Ttl + 1 }

\* What get(file_hash) returns for cache file c: the entry, or Absent for
\* None: no entry or an empty one, a timestamp older than the TTL, a
\* timestamp that cannot be parsed. An entry without timestamp is returned.
get_returns(c, h) ==
    IF c[h].kind \in {"absent", "empty", "invalid"} THEN Absent
    ELSE IF c[h].kind = "dated" /\ c[h].age > Ttl THEN Absent
    ELSE c[h]

\* The valid_cache cleanup() saves: the entries with a timestamp younger
\* than the TTL, and of these the CacheLimit newest when there are more.
valid_cache(c) ==
    LET valid == { h \in DOMAIN c : c[h].kind = "dated" /\ c[h].age < Ttl }
        kept == IF Cardinality(valid) > CacheLimit
                THEN CHOOSE S \in SUBSET valid :
                         /\ Cardinality(S) = CacheLimit
                         /\ \A h \in S, g \in valid \ S : c[h].age <= c[g].age
                ELSE valid
    IN  [h \in DOMAIN c |-> IF h \in kept THEN c[h] ELSE Absent]

InitCache ==
    /\ ClientOff
    /\ ChunkOff
    /\ LangOff
    /\ ConvOff
    /\ cache \in [1 .. MaxHashes -> CacheEntries \cup {Absent}]
    /\ got = "-"
    /\ cleaned = -1
    /\ url_or_id = <<>>
    /\ page_ids = <<>>
    /\ heap = <<>>
    /\ self_blocks = 0
    /\ calls = <<>>
    /\ attempt = 0
    /\ answers = {}
    /\ answer = "-"
    /\ poll = "off"

\* set(file_hash, upload_result): the entry is the result as it is given.
UploadCache_set(h, e) ==
    /\ cache' = [cache EXCEPT ![h] = e]
    /\ UNCHANGED <<got, cleaned>>
    /\ UNCHANGED <<url_or_id, page_ids, heap, self_blocks, calls, attempt,
                   answers, answer, poll>>
    /\ UNCHANGED <<clientVars, chunkVars, langVars, convVars>>

\* get(file_hash): an expired or unparsable entry is removed on the way.
UploadCache_get(h) ==
    /\ got' = get_returns(cache, h)
    /\ cache' = IF \/ cache[h].kind = "invalid"
                   \/ cache[h].kind = "dated" /\ cache[h].age > Ttl
                THEN [cache EXCEPT ![h] = Absent]
                ELSE cache
    /\ UNCHANGED cleaned
    /\ UNCHANGED <<url_or_id, page_ids, heap, self_blocks, calls, attempt,
                   answers, answer, poll>>
    /\ UNCHANGED <<clientVars, chunkVars, langVars, convVars>>

\* cleanup(): saves valid_cache and returns its size.
UploadCache_cleanup ==
    /\ cache' = valid_cache(cache)
    /\ cleaned' = Cardinality({ h \in DOMAIN cache :
                                    valid_cache(cache)[h] # Absent })
    /\ UNCHANGED got
    /\ UNCHANGED <<url_or_id, page_ids, heap, self_blocks, calls, attempt,
                   answers, answer, poll>>
    /\ UNCHANGED <<clientVars, chunkVars, langVars, convVars>>

NextCache ==
    \/ \E h \in 1 .. MaxHashes, e \in CacheEntries : UploadCache_set(h, e)
    \/ \E h \in 1 .. MaxHashes : UploadCache_get(h)
    \/ UploadCache_cleanup

SpecCache == InitCache /\ [][NextCache]_vars


\* ================================================================ claims
ReplaceOps == {"replace_all", "replace_content"}

\* The replace operation's fetch has returned its list.
FetchReturned == op \in ReplaceOps /\ pc \in {"delete", "insert", "done"}
                 /\ ~get_failed

\* delete_blocks has returned (or was not needed).
DeletesReturned == op \in ReplaceOps /\ pc \in {"insert", "done"} /\ ~get_failed

InSeq(x, s) == \E i \in 1..Len(s) : s[i] = x

\* The call returned the success dict of a replace operation.
ReplaceSucceeded == pc = "done" /\ "mode" \in result.keys

C2_DeletesExactlyContent ==
    op = "replace_content" =>
      LET subpages == { j \in 1..Len(existing_blocks) :
                          existing_blocks[j].type = "child_page" }
          others == { j \in 1..Len(existing_blocks) :
                        existing_blocks[j].type # "child_page" }
      IN  /\ \A i \in 1..Len(attempts) :
               \E j \in others : existing_blocks[j].id = attempts[i]
          /\ DeletesReturned =>
               \A j \in others : InSeq(existing_blocks[j].id, attempts)
          /\ ReplaceSucceeded =>
               /\ {"preserved_subpages", "deleted_content_blocks"}
                     \subseteq result.keys
               /\ result.preserved = Cardinality(subpages)
               /\ result.deleted = Cardinality(others)

\* A successful replace_content on a page of two sub-pages and content.
C2_Witness ==
    /\ op = "replace_content"
    /\ ReplaceSucceeded
    /\ result.preserved = 2
    /\ result.deleted >= 1
    /\ Len(attempts) = result.deleted

\* C3: when a page request of the fetch fails, no partial list is returned,
\* no delete and no insert request is issued, the call returns an error
\* result and the remote page is unchanged.
C3_FailedFetchStopsReplace ==
    get_failed =>
      /\ pc = "done"
      /\ existing_blocks = <<>>
      /\ block_ids = <<>>
      /\ attempts = <<>>
      /\ sent = <<>>
      /\ remote = remote0
      /\ result.outcome = "return"
      /\ result.keys = {"error"}

\* The second page request failed after a first page was received.
C3_Witness ==
    /\ get_failed
    /\ Len(gets) >= 2
    /\ Len(pages[1].results) >= 1

\* C4: delete_blocks attempts every id once, in input order, whatever the
\* earlier outcomes; on return every id is in exactly one of deleted and
\* errors; the insert is still issued when errors is non-empty.
C4_DeletesAreBestEffort ==
    /\ Len(attempts) <= Len(block_ids)
    /\ \A i \in 1..Len(attempts) : attempts[i] = block_ids[i]
    /\ DeletesReturned =>
         /\ attempts = block_ids
         /\ Len(deleted) + Len(errors) = Len(block_ids)
         /\ \A i \in 1..Len(block_ids) :
              InSeq(block_ids[i], deleted) # InSeq(block_ids[i], errors)
    /\ (op \in ReplaceOps /\ pc = "done" /\ errors # <<>>) => Len(sent) = 1

\* A delete failed, a later delete succeeded, and the insert was sent.
C4_Witness ==
    /\ pc = "done"
    /\ Len(sent) = 1
    /\ \E i, j \in 1..Len(block_ids) :
         i < j /\ InSeq(block_ids[i], errors) /\ InSeq(block_ids[j], deleted)

\* C5: a non-success answer to the create / append / insert request ends the
\* call with no further request and an error outcome: an exception from
\* create_page and append_blocks, an error result from the replace
\* operations, never a result with the success fields.
C5_InsertFailureIsError ==
    /\ [](insert_status = "status" =>
            /\ pc = "done"
            /\ Len(sent) = 1
            /\ op \in {"create_page", "append_blocks"} =>
                 result.outcome = "raise"
            /\ op \in ReplaceOps =>
                 result.outcome = "return" /\ result.keys = {"error"}
            /\ result.keys \cap {"mode", "added_blocks"} = {})
    /\ [][insert_status = "status" =>
            gets' = gets /\ attempts' = attempts /\ sent' = sent]_vars

\* A replace whose deletes were done got a non-success answer to its insert.
C5_Witness ==
    /\ insert_status = "status"
    /\ op = "replace_all"
    /\ deleted # <<>>

\* C6: get_page_blocks issues one request per page, the first without a
\* cursor and each later one with the cursor of the previous response, stops
\* at the first page whose has_more is false, and returns the concatenation
\* of the batches in the order received.
RECURSIVE Concat(_)
Concat(batches) ==
    IF batches = <<>> THEN <<>> ELSE Head(batches) \o Concat(Tail(batches))

C6_FetchFollowsCursors ==
    /\ Len(gets) = Len(pages)
    /\ Len(gets) >= 1 => gets[1] = 0
    /\ \A i \in 2..Len(gets) :
         pages[i - 1].has_more /\ gets[i] = pages[i - 1].next_cursor
    /\ FetchReturned =>
         /\ ~pages[Len(pages)].has_more
         /\ existing_blocks = Concat([i \in 1..Len(pages) |-> pages[i].results])
         /\ existing_blocks = remote0

\* The children were served as three pages.
C6_Witness ==
    /\ FetchReturned
    /\ pc = "done"
    /\ Len(gets) = 3
    /\ Len(existing_blocks) = 3

\* C7 as stated: after a successful replace_content_blocks every newly
\* inserted block precedes every preserved child_page block.
C7_NewBlocksBeforeSubpages ==
    (op = "replace_content" /\ ReplaceSucceeded) =>
      \A i, j \in 1..Len(remote) :
        (remote[i].id > MaxRemote /\ remote[j].id <= MaxRemote
           /\ remote[j].type = "child_page") => i < j

\* C8 as stated: on success the reported deleted count is the number of
\* remote blocks this call deleted.
C8_DeletedCountIsActual ==
    (op \in ReplaceOps /\ ReplaceSucceeded) =>
      result.deleted =
        Cardinality({ i \in 1..Len(remote0) :
                        ~\E j \in 1..Len(remote) : remote[j].id = remote0[i].id })

\* C9: every chunk chunk_text returns has length at most limit.
C9_ChunksWithinLimit ==
    \A i \in 1..Len(chunks) : Len(chunks[i]) <= limit

\* A text with no space in reach was cut at the limit, twice.
C9_Witness ==
    /\ cpc = "done"
    /\ Len(chunks) >= 3
    /\ Len(chunks[1]) = limit
    /\ Len(chunks[2]) = limit
    /\ limit >= 2

\* s is the chunks cs in order, with at most one whitespace character of s
\* missing after each chunk (between two chunks, or after the last one when
\* the text behind the last split was that character alone).
RECURSIVE Rebuilds(_, _)
Rebuilds(s, cs) ==
    IF cs = <<>> THEN s = <<>>
    ELSE LET c == Head(cs)
             r == SubSeq(s, Len(c) + 1, Len(s))
         IN  /\ Len(c) <= Len(s)
             /\ SubSeq(s, 1, Len(c)) = c
             /\ IF Len(cs) = 1
                THEN r = <<>> \/ (Len(r) = 1 /\ r[1] \in Whitespace)
                ELSE \/ Rebuilds(r, Tail(cs))
                     \/ /\ r # <<>>
                        /\ Head(r) \in Whitespace
                        /\ Rebuilds(Tail(r), Tail(cs))

\* C10 as stated: the chunks concatenated reproduce the text, except that at
\* each split point at most one whitespace character is missing.
C10_RoundTripModuloOneSpace ==
    cpc = "done" => Rebuilds(text0, chunks)

\* ------------------------------------------------------------------- C11
\* The chunk the loop has just appended cuts a word: the character it ends
\* with and the character of the text right behind it are both non-space.
CutsWord ==
    LET c == chunks'[Len(chunks')]
    IN  /\ cpc = "loop"
        /\ Len(chunks') = Len(chunks) + 1
        /\ c # <<>>
        /\ Len(c) < Len(text)
        /\ text[Len(c)] # " "
        /\ text[Len(c) + 1] # " "

\* A space occurs in the first `limit` characters of the remaining text.
SpaceInWindow == \E i \in 1 .. Min(limit, Len(text)) : text[i] = " "

NoChunkEndsWithSpace ==
    \A i \in 1 .. Len(chunks) :
        chunks[i] # <<>> => chunks[i][Len(chunks[i])] # " "

\* The text has no two adjacent spaces and does not end with a space.
SinglySpaced(s) ==
    /\ \A i \in 1 .. Len(s) - 1 : ~(s[i] = " " /\ s[i + 1] = " ")
    /\ s # <<>> => s[Len(s)] # " "

\* C11 as stated: for every text and limit no non-empty chunk ends with a
\* space, and a word is split across two chunks only when no space occurs in
\* the first `limit` characters of the remaining text.
C11_NoTrailingSpaceAnyText ==
    /\ [](NoChunkEndsWithSpace)
    /\ [][CutsWord => ~SpaceInWindow]_vars

\* C11 amended: for every text that has no two adjacent spaces and does not
\* end with a space, no non-empty chunk ends with a space; and for every text,
\* a word is split across two chunks only when no space occurs in the first
\* `limit` characters of the remaining text.
C11_WordBoundaries ==
    /\ [](SinglySpaced(text0) => NoChunkEndsWithSpace)
    /\ [][CutsWord => ~SpaceInWindow]_vars

\* A singly spaced text with spaces was chunked at a space and, later, by a
\* hard cut through a word.
C11_Witness ==
    /\ cpc = "done"
    /\ SinglySpaced(text0)
    /\ \E i \in 1 .. Len(text0) : text0[i] = " "
    /\ Len(chunks) >= 3
    /\ Len(chunks[1]) < limit
    /\ Len(chunks[2]) = limit
    /\ \A i \in 1 .. limit : chunks[2][i] = "a"
    /\ chunks[3][1] = "a"

\* ------------------------------------------------------------------- C14
\* C14: map_language is idempotent and canonical: a second call returns what
\* the first returned, the result is in the supported set, a tag whose lower
\* case is supported gives that lower case, an alias gives a supported tag
\* (the one the table names), and every other tag gives "plain text".
C14_MapLanguageCanonical ==
    /\ Len(mapped) >= 1 =>
          /\ mapped[1] \in supported
          /\ (lang # <<>> /\ lower(lang) \in supported) => mapped[1] = lower(lang)
          /\ (lower(lang) \in MappingKeys \ supported) =>
                 <<lower(lang), mapped[1]>> \in mappings
          /\ (lower(lang) \notin supported \cup MappingKeys) =>
                 mapped[1] = PlainText
    /\ Len(mapped) = 2 => mapped[2] = mapped[1]

\* An alias written in upper case was mapped twice.
C14_Witness ==
    /\ Len(mapped) = 2
    /\ lang # lower(lang)
    /\ lower(lang) \in MappingKeys \ supported
    /\ mapped[2] # PlainText

\* ---------------------------------------------------- claims about convert
\* The children convert has handled so far.
Handled == 1 .. Len(emitted)

\* The text of a fragment sequence: the fragments' contents joined.
FragText(frs) == join([k \in 1 .. Len(frs) |-> frs[k].content])

HeadingTypes == { heading_type(l) : l \in 0 .. MaxLevel }
TextBearing ==
    {"paragraph", "quote", "callout", "to_do", "bulleted_list_item",
     "numbered_list_item", "code"} \cup HeadingTypes

\* ------------------------------------------------------------------- C12
\* C12 as stated: every text-bearing block convert has produced (paragraph,
\* heading, quote, callout, to_do, list item, code) has a non-empty rich_text
\* sequence, whatever the tree.
C12_RichTextNeverEmpty ==
    \A i \in 1 .. Len(cblocks) :
        cblocks[i].type \in TextBearing => cblocks[i].rich_text # <<>>

\* ------------------------------------------------------------------- C13
\* C13 as stated: in every block convert has produced, every rich-text
\* fragment's text content has at most ChunkLimit (2000) characters.
C13_FragmentsWithinLimit ==
    \A i \in 1 .. Len(cblocks) :
        \A k \in 1 .. Len(cblocks[i].rich_text) :
            Len(cblocks[i].rich_text[k].content) <= ChunkLimit

\* ------------------------------------------------------------------- C15
\* The one block a heading node gave has type heading_k.
HeadingGave(i, k) ==
    /\ Len(emitted[i]) = 1
    /\ emitted[i][1].type = heading_type(k)
    /\ emitted[i][1].type \in {"heading_1", "heading_2", "heading_3"}

CalloutQuote(n) ==
    /\ n.kind = "Quote"
    /\ n.children # <<>>
    /\ n.children[1].kind = "Paragraph"
    /\ n.children[1].children # <<>>
    /\ n.children[1].children[1].kind = "RawText"
    /\ callout_match(n.children[1].children[1].s)

\* The icon the tag stands for, whatever its case; the pin when it stands for
\* none.
IconOf(t) ==
    CASE lower(t) \in {<<"n", "o", "t", "e">>, <<"i", "n", "f", "o">>} -> "information"
      [] lower(t) = <<"t", "i", "p">> -> "bulb"
      [] lower(t) = <<"w", "a", "r", "n", "i", "n", "g">> -> "warning"
      [] lower(t) = <<"d", "a", "n", "g", "e", "r">> -> "siren"
      [] lower(t) = <<"i", "m", "p", "o", "r", "t", "a", "n", "t">> -> "exclamation"
      [] lower(t) = <<"e", "x", "a", "m", "p", "l", "e">> -> "memo"
      [] lower(t) = <<"q", "u", "o", "t", "e">> -> "speech"
      [] OTHER -> "pin"

\* The inline content of children as the extractor renders it (nothing for
\* no children).
InlineContent(children) ==
    IF children = <<>> THEN <<>> ELSE FragText(extract_rich_text(children))

\* The text of a callout quote: the first paragraph's first run without the
\* marker and the whitespace behind it, the rest of the first paragraph, then
\* every later Paragraph child in order.
CalloutText(n) ==
    strip_marker(n.children[1].children[1].s)
        \o InlineContent(Tail(n.children[1].children))
        \o join([k \in 1 .. Len(n.children) |->
                    IF k >= 2 /\ n.children[k].kind = "Paragraph"
                    THEN InlineContent(n.children[k].children)
                    ELSE <<>>])

\* C16: for every Quote whose first paragraph's first text run matches the
\* marker expression, narko.py's convert emits exactly one block for it, a
\* callout (no quote block, no paragraph); its icon is the one the tag stands
\* for whatever its case, the pin for an unmapped tag; its rich text is the
\* first paragraph's content without the marker and the whitespace behind
\* it, followed by every later Paragraph child's content in order.
C16_CalloutFromQuote ==
    \A i \in Handled :
        (conv = "narko" /\ CalloutQuote(ast[i])) =>
            /\ Len(emitted[i]) = 1
            /\ emitted[i][1].type = "callout"
            /\ emitted[i][1].icon =
                   IconOf(callout_group1(ast[i].children[1].children[1].s))
            /\ FragText(emitted[i][1].rich_text) = CalloutText(ast[i])

\* A quote with a lower-case marker alone in its first paragraph and a later
\* paragraph became a callout carrying the later paragraph's text.
C16_Witness ==
    \E i \in Handled :
        /\ conv = "narko"
        /\ CalloutQuote(ast[i])
        /\ Len(ast[i].children) >= 2
        /\ ast[i].children[1].children[1].s = <<"[", "!", "n", "o", "t", "e", "]">>
        /\ emitted[i][1].icon = "information"
        /\ FragText(emitted[i][1].rich_text) = Short

\* ------------------------------------------------------------------- C17
\* The node is an Image or FileUploadBlock whose path is no http(s) URL.
LocalFileNode(n) ==
    /\ n.kind \in {"Image", "FileUploadBlock"}
    /\ ~startswith(n.s, <<"h", "t", "t", "p", ":", "/", "/">>)
    /\ ~startswith(n.s, <<"h", "t", "t", "p", "s", ":", "/", "/">>)

\* Child i gave exactly one block, a paragraph whose text contains the path.
FallbackParagraph(i) ==
    /\ Len(emitted[i]) = 1
    /\ emitted[i][1].type = "paragraph"
    /\ contains(FragText(emitted[i][1].rich_text), ast[i].s)

\* C17 as stated: for every Image or FileUploadBlock whose path is no http(s)
\* URL and does not exist on disk, convert emits a fallback paragraph whose
\* text contains the path: never an external-URL block, never no block.
C17_MissingFileFallback ==
    \A i \in Handled :
        (LocalFileNode(ast[i]) /\ ast[i].s \notin disk) => FallbackParagraph(i)

\* ------------------------------------------------------------------- C18
\* C18 as stated: for every Image or FileUploadBlock with an existing local
\* path, whatever upload_file does, convert emits exactly one block for the
\* node: one referring to the upload when upload_file returned an id,
\* otherwise a paragraph whose text contains the path.
C18_UploadAlwaysOneBlock ==
    \A i \in Handled :
        (LocalFileNode(ast[i]) /\ ast[i].s \in disk) =>
            IF uploads[i] = "id"
            THEN Len(emitted[i]) = 1 /\ emitted[i][1].ref = "file_upload"
            ELSE FallbackParagraph(i)

\* ------------------------------------------------------------------- C19
\* What the task line says: the character in the brackets and the text
\* behind "] ".
TaskChar(line) == line[run_len(line, 1, {" "}) + 4]
TaskText(line) == SubSeq(line, run_len(line, 1, {" "}) + 7, Len(line))

\* C19 as stated: for every task line `- [c] text`, convert emits exactly one
\* to_do block whose checked flag is true iff c is x or X and whose rich-text
\* fragments concatenate to text.
C19_TaskLineToDo ==
    \A i \in Handled : \A line \in TaskLines :
        ast[i] = TaskListItem(line) =>
            /\ Len(emitted[i]) = 1
            /\ emitted[i][1].type = "to_do"
            /\ emitted[i][1].checked = (TaskChar(line) \in {"x", "X"})
            /\ FragText(emitted[i][1].rich_text) = TaskText(line)

\* ------------------------------------------------------------------- C20
\* C20 as stated: a node whose kind is outside the running converter's
\* dispatch table is never dropped: it yields exactly one paragraph block
\* whose text is the unknown-node marker followed by at most DumpLimit (500)
\* characters of the node's dump.
C20_UnknownNodeParagraph ==
    \A i \in Handled :
        ast[i].kind \notin (IF conv = "narko" THEN narko_kinds
                            ELSE package_kinds) =>
            /\ Len(emitted[i]) = 1
            /\ emitted[i][1].type = "paragraph"
            /\ \E n \in 0 .. DumpLimit :
                   /\ n <= Len(ast[i].dump)
                   /\ FragText(emitted[i][1].rich_text) =
                          <<"[", "U", "n", "k", "n", "o", "w", "n", " ", "n", "o", "d", "e", ":", " ">> \o SubSeq(ast[i].dump, 1, n)
                              \o <<"]">>

\* ------------------------------------------------------------------- C21
\* The rich text the running converter extracts from the first Paragraph
\* child of a list item (none when the item has no Paragraph child).
FirstParagraphText(item) ==
    LET ps == { k \in 1 .. Len(item.children) :
                    item.children[k].kind = "Paragraph" }
    IN  IF ps = {} THEN <<>>
        ELSE LET first == CHOOSE k \in ps : \A j \in ps : k <= j
             IN  IF conv = "narko"
                 THEN extract_rich_text(item.children[first].children)
                 ELSE _extract_rich_text(item.children[first].children)

\* C21 as stated: for every ListItem of a list, the rich text of the emitted
\* list-item block comes from the item's first Paragraph child only; later
\* Paragraph children of the item contribute no fragment to it.
C21_FirstParagraphOnly ==
    \A i \in Handled :
        ast[i].kind = "List" =>
            /\ Len(emitted[i]) = Len(ast[i].children)
            /\ \A k \in 1 .. Len(emitted[i]) :
                   emitted[i][k].rich_text =
                       FirstParagraphText(ast[i].children[k])

\* ------------------------------------------------------------------- C22
\* C22: the list convert builds, and returns, equals the in-order
\* concatenation of the per-child results over the children handled: a
\* sequence result spliced element by element, a single block appended, a
\* none result skipped; every child is handled once, in document order.
C22_OutputIsConcatenation ==
    /\ Len(emitted) = pos - 1
    /\ cblocks = join(emitted)
    /\ cvpc = "done" => Len(emitted) = Len(ast)

\* convert returned for a document of three children: a list that gave two
\* blocks between a single block and another one.
C22_Witness ==
    /\ cvpc = "done"
    /\ Len(ast) = 3
    /\ Len(emitted[1]) = 1
    /\ Len(emitted[2]) = 2
    /\ Len(emitted[3]) = 1
    /\ emitted[1] # emitted[3]
    /\ Len(cblocks) = 4

\* convert returned for a document one of whose children gave no block.
C22_WitnessSkip ==
    /\ cvpc = "done"
    /\ Len(ast) = 3
    /\ emitted[2] = <<>>
    /\ Len(cblocks) = 2

\* ------------------------------------------------------------------- C23
\* C23 as stated: for every callout tag, the block _convert_callout_block
\* emits for a CalloutBlock carries the icon create_callout chooses for the
\* same tag on the Quote path: the info icon for NOTE and INFO, their own
\* icons for TIP, WARNING, DANGER, IMPORTANT, EXAMPLE and QUOTE, the pin for
\* any other tag.
C23_SameIconBothPaths ==
    \A i \in Handled :
        ast[i].kind = "CalloutBlock" =>
            /\ Len(emitted[i]) = 1
            /\ emitted[i][1].type = "callout"
            /\ emitted[i][1].icon = emoji_map_get(upper(ast[i].tag))

\* ------------------------------------------------------------------- C24
\* s is a dashed UUID: 8-4-4-4-12 hexadecimal characters.
DashedUuid(s) ==
    /\ Len(s) = 36
    /\ \A k \in 1 .. 36 :
           IF k \in {9, 14, 19, 24} THEN s[k] = "-" ELSE s[k] \in HexChars

\* 32 hexadecimal characters stand in s from index i on.
HexRunAt(s, i) ==
    /\ i + 31 <= Len(s)
    /\ \A k \in i .. i + 31 : s[k] \in HexChars

\* C24: extract_page_id is canonicalising and idempotent: a dashed UUID is
\* returned unchanged; a string containing 32 consecutive hexadecimal digits
\* gives the dashed 8-4-4-4-12 form of the first such run; any other string
\* is returned unchanged; and applying it to its own result changes nothing,
\* so the second application get_page_blocks makes addresses the same page.
C24_PageIdCanonical ==
    /\ Len(page_ids) >= 1 =>
          /\ DashedUuid(url_or_id) => page_ids[1] = url_or_id
          /\ \A i \in 1 .. Len(url_or_id) :
                 ( /\ HexRunAt(url_or_id, i)
                   /\ \A j \in 1 .. i - 1 : ~HexRunAt(url_or_id, j) ) =>
                     /\ DashedUuid(page_ids[1])
                     /\ \A k \in 1 .. 32 :
                            page_ids[1][k + (IF k > 20 THEN 4
                                             ELSE IF k > 16 THEN 3
                                             ELSE IF k > 12 THEN 2
                                             ELSE IF k > 8 THEN 1 ELSE 0)]
                                = url_or_id[i + k - 1]
          /\ ( /\ ~DashedUuid(url_or_id)
               /\ \A i \in 1 .. Len(url_or_id) : ~HexRunAt(url_or_id, i) ) =>
                 page_ids[1] = url_or_id
    /\ Len(page_ids) = 2 => page_ids[2] = page_ids[1]

\* A URL ending in a run of more than 32 hexadecimal digits was given, the
\* dashed form of its first 32 came out, and the second application has
\* returned the same.
C24_Witness ==
    /\ Len(page_ids) = 2
    /\ Len(url_or_id) > 50
    /\ HexRunAt(url_or_id, Len(url_or_id) - 31)
    /\ HexRunAt(url_or_id, Len(url_or_id) - 32)
    /\ page_ids[1] # url_or_id
    /\ DashedUuid(page_ids[2])

\* ------------------------------------------------------------------- C25
\* The last page of the listing has been fetched: the last answer was a 200
\* with no more pages behind it, and no request failed.
LastPageFetched ==
    /\ pages # <<>>
    /\ ~pages[Len(pages)].has_more
    /\ ~get_failed

\* The ids the page requests of this call returned.
FetchedIds ==
    UNION { { pages[p].results[j].id : j \in 1 .. Len(pages[p].results) } :
                p \in 1 .. Len(pages) }

\* C25 as stated, its count of inserts: every execution of a replace
\* operation ends with exactly one insert request issued.
C25_ExactlyOneInsert ==
    (op \in ReplaceOps /\ pc = "done") => Len(sent) = 1

\* C25 amended: in every execution of replace_all_blocks and
\* replace_content_blocks the remote calls occur in the order page fetches,
\* deletes, insert: no page is fetched once a delete or the insert has been
\* issued, no delete is issued before the last page has been fetched or
\* after the insert, the insert is issued only after every delete has been
\* attempted, only ids this call's own fetch returned are deleted, and at
\* most one insert is issued: exactly one when every page request succeeded,
\* none (and no delete) when one failed.
C25_FetchDeleteInsertOrder ==
    /\ [](op \in ReplaceOps =>
            /\ Len(sent) <= 1
            /\ \A k \in 1 .. Len(attempts) : attempts[k] \in FetchedIds
            /\ pc = "done" =>
                   IF get_failed
                   THEN sent = <<>> /\ attempts = <<>>
                   ELSE Len(sent) = 1)
    /\ [][op' \in ReplaceOps =>
            /\ gets' # gets => (attempts = <<>> /\ sent = <<>>)
            /\ attempts' # attempts => (LastPageFetched /\ sent = <<>>)
            /\ sent' # sent =>
                   /\ LastPageFetched
                   /\ attempts = block_ids]_vars

\* A replace_content_blocks call has fetched two pages, attempted two
\* deletes, one of them refused, and issued its insert.
C25_Witness ==
    /\ op = "replace_content"
    /\ pc = "done"
    /\ Len(gets) >= 2
    /\ Len(attempts) >= 2
    /\ errors # <<>>
    /\ deleted # <<>>
    /\ Len(sent) = 1

\* ------------------------------------------------------------------- C26
\* C26: chunk_text terminates for every text and every limit >= 1: each pass
\* of the loop that does not leave it makes the remaining text strictly
\* shorter, also when the remaining text begins with a space that is the
\* only space among its first `limit` characters; and the call returns.
C26_ChunkTextTerminates ==
    /\ [][(cpc = "loop" /\ cpc' = "loop") => Len(text') < Len(text)]_vars
    /\ <>(cpc = "done")

\* A text longer than the limit, beginning with the only space among its
\* first `limit` characters, was chunked: the split fell at index 0, the
\* first chunk is empty, and the call has returned.
C26_Witness ==
    /\ cpc = "done"
    /\ Len(text0) > limit
    /\ text0[1] = " "
    /\ \A i \in 2 .. limit : text0[i] # " "
    /\ Len(chunks) >= 2
    /\ chunks[1] = <<>>

\* ------------------------------------------------------------------- C27
\* C27 as stated: calls to convert are independent of one another: the list
\* a call returned is, and stays, exactly the blocks of its own document in
\* order, also when two calls on one NotionConverter are interleaved.
C27_CallsIndependent ==
    \A t \in Threads :
        calls[t].pc = "done" =>
            heap[calls[t].returned] =
                join([k \in 1 .. Len(calls[t].ast) |->
                         process_node(calls[t].ast[k])])

\* ------------------------------------------------------------------- C28
\* C28 as stated: the dict import_to_notion returns has a 'url' key, which
\* the CLI takes for success, only if the client's operation succeeded:
\* when it raised or returned an error result there is no 'url'.
C28_UrlOnlyOnSuccess ==
    (pc = "done" /\ "url" \in response) =>
        /\ result.outcome = "return"
        /\ "error" \notin result.keys

\* ------------------------------------------------------------------- C29
\* Answers that leave the function polling.
Inconclusive == {"pending", "non200"}

\* How the poll ended agrees with the answers it got: success on a 200
\* answer with status uploaded, an error on one with status failed or
\* expired, in each case the first answer that was not inconclusive; the
\* timeout error after MaxAttempts inconclusive answers.
EndAgreesWithAnswers ==
    /\ attempt <= MaxAttempts
    /\ answers \subseteq Inconclusive
    /\ poll = "polling" => answer \in Inconclusive \cup {"-"}
    /\ poll = "success" <=> answer = "uploaded"
    /\ poll = "failed" <=> answer = "failed"
    /\ poll = "expired" <=> answer = "expired"
    /\ poll = "timeout" => (attempt = MaxAttempts /\ answer \in Inconclusive)

\* C29 as stated: _poll_for_completion always returns, with success, an
\* error or the timeout error.
C29_PollAlwaysReturns ==
    poll \in {"polling", "success", "failed", "expired", "timeout"}

\* C29 amended: _poll_for_completion ends after at most 30 status requests.
\* It returns success exactly when one of the answers is a 200 with status
\* uploaded and no earlier answer was a 200 with status failed or expired;
\* it returns an error at the first 200 answer with status failed or
\* expired; it returns the timeout error after the 30th attempt otherwise,
\* non-200 answers and pending statuses each counting as one attempt; and
\* when a status request raises, it ends with that exception instead of
\* returning. Once it has ended no further request is made.
C29_PollEndsWithinAttempts ==
    /\ []EndAgreesWithAnswers
    /\ [](poll = "raised" <=> answer = "raise")
    /\ [][poll # "polling" => attempt' = attempt]_vars
    /\ <>(poll # "polling")

\* The 30th request was answered uploaded after 29 inconclusive answers of
\* both kinds.
C29_Witness ==
    /\ poll = "success"
    /\ attempt = MaxAttempts
    /\ answers = Inconclusive

\* ------------------------------------------------------------------- C30
\* C30 as stated: cleanup removes only entries get() treats as expired or
\* invalid: every hash for which get() returns an entry immediately before
\* cleanup() has get() return the same entry immediately after it, and
\* cleanup's return value is the number of entries left in the cache.
C30_CleanupKeepsWhatGetReturns ==
    [][UploadCache_cleanup =>
          /\ \A h \in 1 .. MaxHashes :
                 get_returns(cache, h) # Absent =>
                     get_returns(cache', h) = get_returns(cache, h)
          /\ cleaned' = Cardinality({ h \in 1 .. MaxHashes :
                                          cache'[h] # Absent })]_vars

====
